---- MODULE Spec2Model ----
(***************************************************************************)
(* paperless-stamp: the polling worker (worker.py) that discovers          *)
(* trigger-tagged documents, stamps them and moves their tags, together    *)
(* with the external document store it talks to through PaperlessClient.   *)
(*                                                                         *)
(* Strings whose characters the code inspects (tag names, stamp types,     *)
(* dates) are sequences of one-character strings; an Optional[str] is the  *)
(* empty tuple (None) or a one-element tuple holding the value.            *)
(***************************************************************************)
EXTENDS Integers, Sequences, FiniteSets, TLC

\* ------------------------------------------------------------------ bounds
NumDocs == 2
MaxFaults == 2

\* --------------------------------------------------------------- constants
STAMP_TAG_PREFIX == <<"s", "t", "a", "m", "p", ":">>
DONE_TAG_PREFIX == <<"s", "t", "a", "m", "p", "e", "d", ":">>
ERROR_TAG_NAME == <<"s", "t", "a", "m", "p", ":", "e", "r", "r", "o", "r">>
DEFAULT_RECEIVED_DATE_FALLBACK == "created"

TypePaid == <<"p", "a", "i", "d">>
TypeReceived == <<"r", "e", "c", "e", "i", "v", "e", "d">>
TypeError == <<"e", "r", "r", "o", "r">>

None == <<>>
Some(v) == <<v>>

Docs == 1..NumDocs

\* ------------------------------------------------------- string operations
Lowers == <<"a", "b", "c", "d", "e", "f", "g", "h", "i", "j", "k", "l", "m",
            "n", "o", "p", "q", "r", "s", "t", "u", "v", "w", "x", "y", "z">>
Uppers == <<"A", "B", "C", "D", "E", "F", "G", "H", "I", "J", "K", "L", "M",
            "N", "O", "P", "Q", "R", "S", "T", "U", "V", "W", "X", "Y", "Z">>

LowerChar(c) ==
    IF \E i \in 1..26 : Uppers[i] = c
    THEN Lowers[CHOOSE i \in 1..26 : Uppers[i] = c]
    ELSE c

UpperChar(c) ==
    IF \E i \in 1..26 : Lowers[i] = c
    THEN Uppers[CHOOSE i \in 1..26 : Lowers[i] = c]
    ELSE c

\* str.lower()
Lower(s) == [i \in 1..Len(s) |-> LowerChar(s[i])]

\* str.upper()
Upper(s) == [i \in 1..Len(s) |-> UpperChar(s[i])]

\* str.startswith(p)
StartsWith(s, p) == Len(s) >= Len(p) /\ SubSeq(s, 1, Len(p)) = p

\* s[n:]
DropPrefix(s, n) == SubSeq(s, n + 1, Len(s))

\* s[:n]
Take(s, n) == SubSeq(s, 1, IF Len(s) < n THEN Len(s) ELSE n)

\* str.isspace() on the characters that occur: space, tab, newline, return.
IsSpace(c) == c \in {" ", "\t", "\n", "\r"}

RECURSIVE LStrip(_)
LStrip(s) == IF s # <<>> /\ IsSpace(Head(s)) THEN LStrip(Tail(s)) ELSE s

RECURSIVE RStrip(_)
RStrip(s) ==
    IF s # <<>> /\ IsSpace(s[Len(s)]) THEN RStrip(SubSeq(s, 1, Len(s) - 1)) ELSE s

\* str.strip()
Strip(s) == RStrip(LStrip(s))

\* sorted(set): position i holds the element with i - 1 smaller ones
Sorted(S) ==
    [i \in 1..Cardinality(S) |->
        CHOOSE x \in S : Cardinality({y \in S : y < x}) = i - 1]

\* set(list)
ToSet(s) == {s[i] : i \in 1..Len(s)}

\* ------------------------------------------------------ the external store
\* Tags that exist upstream when the worker starts: id -> name.
InitialTags ==
    (1 :> STAMP_TAG_PREFIX \o TypePaid) @@
    (2 :> STAMP_TAG_PREFIX \o TypeReceived) @@
    (3 :> <<"S", "t", "a", "m", "p", ":">> \o TypePaid) @@
    (4 :> <<"i", "n", "v", "o", "i", "c", "e">>) @@
    (5 :> DONE_TAG_PREFIX \o TypePaid)

\* Tag lists a document can carry at the start.
InitialTagLists == {<<2, 1, 4>>, <<3>>}

\* Custom field definitions upstream: name -> id.
UpstreamFields == ("Paid Date" :> 10) @@ ("Received Date" :> 11)

\* custom_fields of a document snapshot: list of (field id, value).
DocCustomFields(d) ==
    IF d = 1
    THEN <<[field |-> 10,
            value |-> Some(<<"2", "0", "2", "4", "-", "0", "3", "-", "1", "5">>)]>>
    ELSE <<>>

\* created timestamp of a document snapshot.
DocCreated(d) ==
    IF d = 1 THEN None
    ELSE Some(<<"2", "0", "2", "4", "-", "0", "1", "-", "1", "0", "T",
                "1", "2", ":", "0", "0", ":", "0", "0", "Z">>)

\* The server-side filter tags__name__istartswith="stamp:".
IsStampable(tagList, up) ==
    \E i \in 1..Len(tagList) :
        /\ tagList[i] \in DOMAIN up
        /\ StartsWith(Lower(up[tagList[i]]), STAMP_TAG_PREFIX)

\* Documents the store returns for the discovery query, in id order.
StampableDocuments(docTags, up) ==
    LET ids == Sorted({d \in Docs : IsStampable(docTags[d], up)})
    IN [k \in 1..Len(ids) |->
            [id |-> ids[k],
             tags |-> docTags[ids[k]],
             custom_fields |-> DocCustomFields(ids[k]),
             created |-> DocCreated(ids[k])]]

\* Id the store gives to the next created tag.
NextTagId(up) == (CHOOSE m \in DOMAIN up : \A x \in DOMAIN up : x <= m) + 1

\* ------------------------------------------------------------- exceptions
NoExc == [cls |-> "none", msg |-> ""]

\* The exception a failing step raises.  kind "stamp": the step's error of
\* the PaperlessStampError hierarchy; kind "unexpected": any other exception.
Raise(step, kind) ==
    IF kind = "unexpected"
    THEN [cls |-> "RuntimeError", msg |-> "boom"]
    ELSE IF kind = "notimpl"
    THEN [cls |-> "NotImplementedError",
          msg |-> "upload_version requires Paperless-ngx file versioning"]
    ELSE IF step \in {"dims", "merge"}
    THEN [cls |-> "StampMergeError", msg |-> "PDF is encrypted"]
    ELSE IF step = "gen"
    THEN [cls |-> "StampGenerationError", msg |-> "Invalid page dimensions"]
    ELSE IF step \in {"refresh_tags", "refresh_fields", "discover"}
    THEN [cls |-> "PaperlessConnectionError", msg |-> "Cannot connect"]
    ELSE [cls |-> "PaperlessAPIError", msg |-> "API error 500"]

\* isinstance(exc, PaperlessStampError)
IsPaperlessStampError(e) ==
    e.cls \in {"PaperlessAPIError", "PaperlessConnectionError",
               "PaperlessAuthError", "StampMergeError", "StampGenerationError"}

\* except (StampError, PaperlessStampError, NotImplementedError)
CaughtByProcessDocument(e) ==
    IsPaperlessStampError(e) \/ e.cls = "NotImplementedError"

\* ----------------------------------------------------------- WorkerConfig
\* DEFAULT_TEXT, the texts from_env yields when no STAMP_TEXT_* is set.
ConfigTexts ==
    (TypePaid :> <<"P", "A", "I", "D">>) @@
    (TypeReceived :> <<"R", "E", "C", "E", "I", "V", "E", "D">>)

ConfigDateFields == (TypePaid :> "Paid Date") @@ (TypeReceived :> "Received Date")

get_date_field_name(stamp_type) ==
    IF stamp_type \in DOMAIN ConfigDateFields
    THEN Some(ConfigDateFields[stamp_type])
    ELSE None

\* -------------------------------------------------------------- resolvers
\* TagResolver.refresh: both maps rebuilt from the listing.
TagResolver_refresh(up) ==
    [n2i |-> [n \in {up[i] : i \in DOMAIN up} |->
                 CHOOSE i \in DOMAIN up :
                     up[i] = n /\ \A j \in DOMAIN up : up[j] = n => j <= i],
     i2n |-> up]

\* TagResolver.name_to_id / id_to_name: dict.get
name_to_id(n2i, name) == IF name \in DOMAIN n2i THEN Some(n2i[name]) ELSE None
id_to_name(i2n, tag_id) == IF tag_id \in DOMAIN i2n THEN Some(i2n[tag_id]) ELSE None

\* CustomFieldResolver.get_field_value
RECURSIVE get_field_value_from(_, _)
get_field_value_from(cfs, field_id) ==
    IF cfs = <<>> THEN None
    ELSE LET cf == Head(cfs)
         IN IF /\ cf.field = field_id
               /\ cf.value # None
               /\ Strip(cf.value[1]) # <<>>
            THEN Some(Strip(cf.value[1]))
            ELSE get_field_value_from(Tail(cfs), field_id)

\* get_field_value returning the stored value as it is, untrimmed.
get_field_value_untrimmed(f2i, document, field_name) ==
    IF field_name \notin DOMAIN f2i THEN None
    ELSE LET cfs == document.custom_fields
             hits == {i \in 1..Len(cfs) : /\ cfs[i].field = f2i[field_name]
                                          /\ cfs[i].value # None}
         IN IF hits = {} THEN None ELSE cfs[Sorted(hits)[1]].value

get_field_value(f2i, document, field_name) ==
    IF field_name \notin DOMAIN f2i THEN None
    ELSE get_field_value_from(document.custom_fields, f2i[field_name])

\* -------------------------------------------------------- worker helpers
RECURSIVE extract_stamp_types_from(_, _)
extract_stamp_types_from(tags, i2n) ==
    IF tags = <<>> THEN <<>>
    ELSE LET tag_name == id_to_name(i2n, Head(tags))
             rest == extract_stamp_types_from(Tail(tags), i2n)
         IN IF /\ tag_name # None
               /\ tag_name[1] # <<>>
               /\ StartsWith(Lower(tag_name[1]), STAMP_TAG_PREFIX)
            THEN LET stamp_type == DropPrefix(tag_name[1], Len(STAMP_TAG_PREFIX))
                 IN IF stamp_type # <<>> /\ stamp_type # TypeError
                    THEN <<stamp_type>> \o rest
                    ELSE rest
            ELSE rest

\* _extract_stamp_types walking the tag ids as a sorted set, not as the list.
_extract_stamp_types_sorted(document, i2n) ==
    extract_stamp_types_from(Sorted(ToSet(document.tags)), i2n)

_extract_stamp_types(document, i2n) == extract_stamp_types_from(document.tags, i2n)

\* WorkerConfig as date resolution reads it; the worker runs with the
\* defaults.
DefaultConfig ==
    [date_fields |-> ConfigDateFields,
     received_date_fallback |-> DEFAULT_RECEIVED_DATE_FALLBACK]

\* _resolve_stamp_date falling back to created for every stamp type.
resolve_stamp_date_any_type(config, stamp_type, document, f2i) ==
    LET value == IF stamp_type \in DOMAIN config.date_fields
                    /\ config.date_fields[stamp_type] # ""
                 THEN get_field_value(f2i, document,
                                      config.date_fields[stamp_type])
                 ELSE None
    IN IF value # None THEN value
       ELSE IF /\ config.received_date_fallback = "created"
               /\ document.created # None
               /\ document.created[1] # <<>>
            THEN Some(Take(document.created[1], 10))
            ELSE None

\* _resolve_stamp_date(stamp_type, document, config, field_resolver)
resolve_stamp_date_under(config, stamp_type, document, f2i) ==
    LET value == IF stamp_type \in DOMAIN config.date_fields
                    /\ config.date_fields[stamp_type] # ""
                 THEN get_field_value(f2i, document,
                                      config.date_fields[stamp_type])
                 ELSE None
    IN IF value # None THEN value
       ELSE IF /\ stamp_type = TypeReceived
               /\ config.received_date_fallback = "created"
               /\ document.created # None
               /\ document.created[1] # <<>>
            THEN Some(Take(document.created[1], 10))
            ELSE None

_resolve_stamp_date(stamp_type, document, f2i) ==
    resolve_stamp_date_under(DefaultConfig, stamp_type, document, f2i)

\* ------------------------------------------------------------------ state
VARIABLES
    upTags,          \* store: tag id -> tag name
    upDocTags,       \* store: document id -> tag id list
    uploaded,        \* store: documents that received a stamped version
    uploadAvailable, \* the injected client implements upload_version
    tag_n2i,         \* TagResolver._name_to_id
    tag_i2n,         \* TagResolver._id_to_name
    field_n2i,       \* CustomFieldResolver._name_to_id
    pc,              \* position of run_worker / poll_once
    documents,       \* poll_once: the discovery list (snapshots)
    idx,             \* poll_once: index of the next document
    all_results,     \* poll_once: results collected in this cycle
    pollExc,         \* exception poll_once raised to run_worker, or NoExc
    trace,           \* refresh and discovery calls of this cycle, with outcome
    calls,           \* client calls made for documents in this cycle
    runs,            \* one record per process_document call of this cycle
    faults,          \* failures injected so far
    failedDocs,      \* documents whose pipeline run failed in some cycle
    stampedTypes,    \* document id -> types it was successfully stamped with
    unit,            \* a call of one operation on its own: inputs and outcome
    texts            \* WorkerConfig.texts: stamp type -> display text

vars == <<upTags, upDocTags, uploaded, uploadAvailable, tag_n2i, tag_i2n,
          field_n2i, pc, documents, idx, all_results, pollExc, trace, calls,
          runs, faults, failedDocs, stampedTypes, unit, texts>>

\* WorkerConfig.get_stamp_text
get_stamp_text(stamp_type) ==
    IF stamp_type \in DOMAIN texts THEN texts[stamp_type]
    ELSE Upper(stamp_type)

\* StampConfig: __post_init__ upper-cases the text.
StampConfig(text, doc_id, date) ==
    [text |-> Upper(text), doc_id |-> doc_id, date |-> date]

\* _build_stamp_configs: text and date of the stamp of each type (the color
\* is not modelled).
_build_stamp_configs(document, stamp_types, f2i) ==
    [k \in 1..Len(stamp_types) |->
        StampConfig(get_stamp_text(stamp_types[k]), document.id,
                    _resolve_stamp_date(stamp_types[k], document, f2i))]

Kinds == {"ok", "stamp", "unexpected"}

\* Where the run of one document fails first, and how (step "none": nowhere),
\* and how the three calls of the error handler end.
AllPlans ==
    [step : {"none"}, at : {0}, kind : {"ok"},
     hcreate : Kinds, hupdate : Kinds, hnote : Kinds]
    \cup
    [step : {"download", "dims", "merge", "upload", "update"}, at : {0},
     kind : {"stamp", "unexpected"},
     hcreate : Kinds, hupdate : Kinds, hnote : Kinds]
    \cup
    [step : {"gen"}, at : {0}, kind : {"stamp"},
     hcreate : Kinds, hupdate : Kinds, hnote : Kinds]
    \cup
    [step : {"create"}, at : {1, 2}, kind : {"stamp", "unexpected"},
     hcreate : Kinds, hupdate : Kinds, hnote : Kinds]

\* A plan names an outcome only for calls that can be reached: the handler
\* does not run after an exception process_document does not catch, its
\* update runs only after ensure_tag returned, its note only when the update
\* did not raise past the handler.
Reachable(plan) ==
    /\ plan.kind = "unexpected" =>
          plan.hcreate = "ok" /\ plan.hupdate = "ok" /\ plan.hnote = "ok"
    /\ plan.hcreate # "ok" => plan.hupdate = "ok" /\ plan.hnote = "ok"
    /\ plan.hupdate = "unexpected" => plan.hnote = "ok"

Plans == {plan \in AllPlans : Reachable(plan)}

StepKind(plan, step) == IF plan.step = step THEN plan.kind ELSE "ok"
CreateKind(plan, k) ==
    IF plan.step = "create" /\ plan.at = k THEN plan.kind ELSE "ok"
PlannedFaults(plan) ==
    (IF plan.step = "none" THEN 0 ELSE 1)
    + (IF plan.hcreate = "ok" THEN 0 ELSE 1)
    + (IF plan.hupdate = "ok" THEN 0 ELSE 1)
    + (IF plan.hnote = "ok" THEN 0 ELSE 1)

\* The machine a run works on: store, caches, call log, pending exception.
Machine ==
    [up |-> upTags, docTags |-> upDocTags, uploaded |-> uploaded,
     n2i |-> tag_n2i, i2n |-> tag_i2n, f2i |-> field_n2i, log |-> calls,
     exc |-> NoExc, step |-> "none", used |-> 0, cur |-> {}, ret |-> 0,
     stamps |-> <<>>]

Call(op, doc_id, arg, ok) == [op |-> op, doc |-> doc_id, arg |-> arg, ok |-> ok]

Fail(m, step, kind) ==
    [m EXCEPT !.exc = Raise(step, kind), !.step = step,
              !.used = @ + (IF kind = "notimpl" THEN 0 ELSE 1)]

\* ------------------------------------------------------------ client calls
download_document(m, doc_id, kind) ==
    LET m1 == [m EXCEPT !.log = Append(@, Call("download", doc_id, <<>>, kind = "ok"))]
    IN IF kind = "ok" THEN m1 ELSE Fail(m1, "download", kind)

upload_version(m, doc_id, kind) ==
    LET m1 == [m EXCEPT !.log = Append(@, Call("upload", doc_id, <<>>, kind = "ok"))]
    IN IF kind = "ok" THEN [m1 EXCEPT !.uploaded = @ \cup {doc_id}]
       ELSE Fail(m1, "upload", kind)

update_document_tags(m, doc_id, tag_ids, kind) ==
    LET m1 == [m EXCEPT !.log = Append(@, Call("update", doc_id, tag_ids, kind = "ok"))]
    IN IF kind = "ok" THEN [m1 EXCEPT !.docTags[doc_id] = tag_ids]
       ELSE Fail(m1, "update", kind)

add_note(m, doc_id, note, kind) ==
    LET m1 == [m EXCEPT !.log = Append(@, Call("note", doc_id, note, kind = "ok"))]
    IN IF kind = "ok" THEN m1 ELSE Fail(m1, "note", kind)

\* get_page1_dimensions, generate_stamp_overlay, merge_stamp_overlay as
\* process_document sees them: they return or raise, and call no client.
local_step(m, step, kind) == IF kind = "ok" THEN m ELSE Fail(m, step, kind)

\* ensure_tag that creates the tag but records nothing in the cache.
ensure_tag_uncached(m, doc_id, name, kind) ==
    IF name_to_id(m.n2i, name) # None
    THEN [m EXCEPT !.ret = m.n2i[name]]
    ELSE LET m1 == [m EXCEPT !.log =
                        Append(@, Call("create", doc_id, name, kind = "ok"))]
             tag_id == NextTagId(m.up)
         IN IF kind = "ok"
            THEN [m1 EXCEPT !.up = (tag_id :> name) @@ @, !.ret = tag_id]
            ELSE Fail(m1, "create", kind)

\* ensure_tag that records the expected id in the cache before the request.
ensure_tag_caches_first(m, doc_id, name, kind) ==
    IF name_to_id(m.n2i, name) # None
    THEN [m EXCEPT !.ret = m.n2i[name]]
    ELSE LET tag_id == NextTagId(m.up)
             m1 == [m EXCEPT !.log =
                        Append(@, Call("create", doc_id, name, kind = "ok")),
                             !.n2i = (name :> tag_id) @@ @,
                             !.i2n = (tag_id :> name) @@ @]
         IN IF kind = "ok"
            THEN [m1 EXCEPT !.up = (tag_id :> name) @@ @, !.ret = tag_id]
            ELSE Fail(m1, "create", kind)

\* TagResolver.ensure_tag; the id is returned in m.ret.
ensure_tag(m, doc_id, name, kind) ==
    IF name_to_id(m.n2i, name) # None
    THEN [m EXCEPT !.ret = m.n2i[name]]
    ELSE LET m1 == [m EXCEPT !.log =
                        Append(@, Call("create", doc_id, name, kind = "ok"))]
             tag_id == NextTagId(m.up)
         IN IF kind = "ok"
            THEN [m1 EXCEPT !.up = (tag_id :> name) @@ @,
                            !.n2i = (name :> tag_id) @@ @,
                            !.i2n = (tag_id :> name) @@ @,
                            !.ret = tag_id]
            ELSE Fail(m1, "create", kind)

\* ---------------------------------------------------------- tag transitions
\* Sequencing: v is evaluated once and handed to Body.
Strict(v, Body(_)) == CHOOSE r \in {Body(x) : x \in {v}} : TRUE

\* Sequencing of statements: Step runs unless an exception is pending.
AndThen(v, Step(_)) ==
    Strict(v, LAMBDA m : IF m.exc # NoExc THEN m ELSE Step(m))

\* Discarding the trigger id and also dropping the trigger name from the
\* resolver's cache.
discard_trigger_pops(m, stamp_type) ==
    LET trigger_id == name_to_id(m.n2i, STAMP_TAG_PREFIX \o stamp_type)
    IN IF trigger_id # None
       THEN [m EXCEPT !.cur = @ \ {trigger_id[1]},
                      !.n2i = [n \in DOMAIN m.n2i \ {STAMP_TAG_PREFIX \o stamp_type}
                                  |-> m.n2i[n]]]
       ELSE m

\* current_tag_ids.discard(trigger_id) when the trigger name is cached
discard_trigger(m, stamp_type) ==
    LET trigger_id == name_to_id(m.n2i, STAMP_TAG_PREFIX \o stamp_type)
    IN IF trigger_id # None THEN [m EXCEPT !.cur = @ \ {trigger_id[1]}] ELSE m

RECURSIVE swap_loop(_, _, _, _, _)
swap_loop(m, doc_id, stamp_types, k, plan) ==
    IF k > Len(stamp_types) \/ m.exc # NoExc THEN m
    ELSE Strict(ensure_tag(discard_trigger(m, stamp_types[k]), doc_id,
                           DONE_TAG_PREFIX \o stamp_types[k],
                           CreateKind(plan, k)),
                LAMBDA m2 :
                    swap_loop(IF m2.exc = NoExc
                              THEN [m2 EXCEPT !.cur = @ \cup {m2.ret}]
                              ELSE m2,
                              doc_id, stamp_types, k + 1, plan))

\* _swap_tags starting from an empty set instead of the document's tags.
_swap_tags_forgets_tags(m, document, stamp_types, plan) ==
    AndThen(swap_loop([m EXCEPT !.cur = {}], document.id, stamp_types, 1, plan),
            LAMBDA m1 : update_document_tags(m1, document.id, Sorted(m1.cur),
                                             StepKind(plan, "update")))

_swap_tags(m, document, stamp_types, plan) ==
    AndThen(swap_loop([m EXCEPT !.cur = ToSet(document.tags)], document.id,
                      stamp_types, 1, plan),
            LAMBDA m1 : update_document_tags(m1, document.id, Sorted(m1.cur),
                                             StepKind(plan, "update")))

RECURSIVE discard_triggers(_, _)
discard_triggers(m, stamp_types) ==
    IF stamp_types = <<>> THEN m
    ELSE discard_triggers(discard_trigger(m, Head(stamp_types)), Tail(stamp_types))

\* A "try: ... except PaperlessStampError: log" block around one call.
Swallowed(m) ==
    IF m.exc # NoExc /\ IsPaperlessStampError(m.exc)
    THEN [m EXCEPT !.exc = NoExc]
    ELSE m

ErrorNote(error_message) == <<"[paperless-stamp] Stamping failed: ", error_message>>

\* _handle_error; m.exc # NoExc on return means it raised.
_handle_error(m, document, stamp_types, error_message, plan) ==
    AndThen(AndThen(AndThen(
        discard_triggers([m EXCEPT !.cur = ToSet(document.tags)], stamp_types),
        LAMBDA m0 : ensure_tag(m0, document.id, ERROR_TAG_NAME, plan.hcreate)),
        LAMBDA m1 : Swallowed(update_document_tags(
                        m1, document.id, Sorted(m1.cur \cup {m1.ret}),
                        plan.hupdate))),
        LAMBDA m2 : Swallowed(add_note(m2, document.id,
                                       ErrorNote(error_message), plan.hnote)))

\* -------------------------------------------------------- process_document
StampResult(doc_id, stamp_type, stamp_date, success, error_message) ==
    [document_id |-> doc_id, stamp_type |-> stamp_type,
     stamp_text |-> get_stamp_text(stamp_type), stamp_date |-> stamp_date,
     success |-> success, error_message |-> error_message]

\* SuccessResults reporting only the first type as stamped.
SuccessResults_first_only(document, stamp_types, f2i) ==
    [k \in 1..Len(stamp_types) |->
        StampResult(document.id, stamp_types[k],
                    _resolve_stamp_date(stamp_types[k], document, f2i),
                    k = 1, None)]

SuccessResults(document, stamp_types, f2i) ==
    [k \in 1..Len(stamp_types) |->
        StampResult(document.id, stamp_types[k],
                    _resolve_stamp_date(stamp_types[k], document, f2i),
                    TRUE, None)]

\* FailedResults carrying the resolved date, as the success results do.
FailedResults_with_date(document, stamp_types, error_msg) ==
    [k \in 1..Len(stamp_types) |->
        StampResult(document.id, stamp_types[k],
                    Some(<<"2", "0", "2", "4">>), FALSE, Some(error_msg))]

FailedResults(document, stamp_types, error_msg) ==
    [k \in 1..Len(stamp_types) |->
        StampResult(document.id, stamp_types[k], None, FALSE, Some(error_msg))]

\* The try block of process_document with the tag swap before the upload.
pipeline_swaps_first(m, document, stamp_types, plan, canUpload) ==
    AndThen(AndThen(AndThen(AndThen(AndThen(
        download_document(m, document.id, StepKind(plan, "download")),
        LAMBDA a : local_step(a, "dims", StepKind(plan, "dims"))),
        LAMBDA b : local_step(
                       [b EXCEPT !.stamps =
                            _build_stamp_configs(document, stamp_types, b.f2i)],
                       "gen", StepKind(plan, "gen"))),
        LAMBDA c : local_step(c, "merge", StepKind(plan, "merge"))),
        LAMBDA e : _swap_tags(e, document, stamp_types, plan)),
        LAMBDA d : upload_version(d, document.id,
                       IF canUpload THEN StepKind(plan, "upload") ELSE "notimpl"))

\* The try block of process_document: steps 1 to 7.
pipeline(m, document, stamp_types, plan, canUpload) ==
    AndThen(AndThen(AndThen(AndThen(AndThen(
        download_document(m, document.id, StepKind(plan, "download")),
        LAMBDA a : local_step(a, "dims", StepKind(plan, "dims"))),
        LAMBDA b : local_step(
                       [b EXCEPT !.stamps =
                            _build_stamp_configs(document, stamp_types, b.f2i)],
                       "gen", StepKind(plan, "gen"))),
        LAMBDA c : local_step(c, "merge", StepKind(plan, "merge"))),
        LAMBDA d : upload_version(d, document.id,
                       IF canUpload THEN StepKind(plan, "upload") ELSE "notimpl")),
        LAMBDA e : _swap_tags(e, document, stamp_types, plan))

RunRecord(document, stamp_types, outcome, p, results) ==
    [doc |-> document.id, tags |-> ToSet(document.tags), types |-> stamp_types,
     step |-> p.step, exc |-> p.exc, outcome |-> outcome, results |-> results,
     stamps |-> p.stamps]

\* The except clause of process_document, entered with the machine p the
\* try block left behind.
failure_path(p, document, stamp_types, plan) ==
    Strict(_handle_error([p EXCEPT !.exc = NoExc], document, stamp_types,
                         p.exc.msg, plan),
           LAMBDA h :
               IF h.exc # NoExc
               THEN [m |-> h, results |-> <<>>, raised |-> h.exc,
                     run |-> RunRecord(document, stamp_types, "raised", p, <<>>)]
               ELSE [m |-> h,
                     results |-> FailedResults(document, stamp_types, p.exc.msg),
                     raised |-> NoExc,
                     run |-> RunRecord(document, stamp_types, "failed", p,
                                FailedResults(document, stamp_types, p.exc.msg))])

\* process_document downloading the document before it looks at the types.
process_document_downloads_first(m, document, f2i, plan, canUpload) ==
    Strict(_extract_stamp_types(document, m.i2n), LAMBDA stamp_types :
        Strict(pipeline(m, document, stamp_types, plan, canUpload),
               LAMBDA p :
            IF stamp_types = <<>>
            THEN [m |-> p, results |-> <<>>, raised |-> NoExc,
                  run |-> RunRecord(document, stamp_types, "empty", p, <<>>)]
            ELSE IF p.exc = NoExc
            THEN [m |-> p,
                  results |-> SuccessResults(document, stamp_types, f2i),
                  raised |-> NoExc,
                  run |-> RunRecord(document, stamp_types, "success", p,
                             SuccessResults(document, stamp_types, f2i))]
            ELSE IF ~CaughtByProcessDocument(p.exc)
            THEN [m |-> p, results |-> <<>>, raised |-> p.exc,
                  run |-> RunRecord(document, stamp_types, "raised", p, <<>>)]
            ELSE failure_path(p, document, stamp_types, plan)))

\* process_document: the machine after the call, the results it returns, the
\* exception it raises (NoExc when it returns) and a record of the run.
process_document(m, document, f2i, plan, canUpload) ==
    Strict(_extract_stamp_types(document, m.i2n), LAMBDA stamp_types :
        IF stamp_types = <<>>
        THEN [m |-> m, results |-> <<>>, raised |-> NoExc,
              run |-> RunRecord(document, stamp_types, "empty", m, <<>>)]
        ELSE Strict(pipeline(m, document, stamp_types, plan, canUpload),
                    LAMBDA p :
            IF p.exc = NoExc
            THEN [m |-> p,
                  results |-> SuccessResults(document, stamp_types, f2i),
                  raised |-> NoExc,
                  run |-> RunRecord(document, stamp_types, "success", p,
                             SuccessResults(document, stamp_types, f2i))]
            ELSE IF ~CaughtByProcessDocument(p.exc)
            THEN [m |-> p, results |-> <<>>, raised |-> p.exc,
                  run |-> RunRecord(document, stamp_types, "raised", p, <<>>)]
            ELSE failure_path(p, document, stamp_types, plan)))

\* No operation is being called on its own: the worker is running.
NoUnit == [op |-> "none"]

\* ------------------------------------------------------------------ actions
Init ==
    /\ upTags = InitialTags
    /\ upDocTags \in [Docs -> InitialTagLists]
    /\ uploaded = {}
    /\ uploadAvailable \in BOOLEAN
    /\ tag_n2i = << >>
    /\ tag_i2n = << >>
    /\ field_n2i = << >>
    /\ pc = "poll"
    /\ documents = <<>>
    /\ idx = 1
    /\ all_results = <<>>
    /\ pollExc = NoExc
    /\ trace = <<>>
    /\ calls = <<>>
    /\ runs = <<>>
    /\ faults = 0
    /\ failedDocs = {}
    /\ stampedTypes = [d \in Docs |-> {}]
    /\ unit = NoUnit
    /\ texts = ConfigTexts

\* run_worker without its "except Exception" clause.
PollRaises_stops(e) ==
    /\ pollExc' = e
    /\ pc' = IF IsPaperlessStampError(e) THEN "sleep" ELSE "stopped"

\* run_worker catches whatever poll_once raises and goes to sleep.
PollRaises(e) == /\ pollExc' = e
                 /\ pc' = "sleep"

\* tag_resolver.refresh() that also creates the error marker upstream when
\* the listing lacks it.
RefreshTags_creates_marker(kind) ==
    /\ pc = "poll"
    /\ kind # "ok" => faults < MaxFaults
    /\ faults' = faults + (IF kind = "ok" THEN 0 ELSE 1)
    /\ trace' = <<[step |-> "refresh_tags", kind |-> kind]>>
    /\ documents' = <<>>
    /\ idx' = 1
    /\ all_results' = <<>>
    /\ calls' = <<>>
    /\ runs' = <<>>
    /\ IF kind = "ok"
       THEN /\ upTags' = IF \E t \in DOMAIN upTags : upTags[t] = ERROR_TAG_NAME
                         THEN upTags
                         ELSE (NextTagId(upTags) :> ERROR_TAG_NAME) @@ upTags
            /\ tag_n2i' = TagResolver_refresh(upTags').n2i
            /\ tag_i2n' = TagResolver_refresh(upTags').i2n
            /\ pollExc' = NoExc
            /\ pc' = "fields"
       ELSE /\ PollRaises(Raise("refresh_tags", kind))
            /\ UNCHANGED <<upTags, tag_n2i, tag_i2n>>
    /\ UNCHANGED <<upDocTags, uploaded, uploadAvailable, field_n2i,
                   failedDocs, stampedTypes, unit, texts>>

\* tag_resolver.refresh() that adds the listing to the maps it has instead of
\* building new ones.
RefreshTags_merges(kind) ==
    /\ pc = "poll"
    /\ kind # "ok" => faults < MaxFaults
    /\ faults' = faults + (IF kind = "ok" THEN 0 ELSE 1)
    /\ trace' = <<[step |-> "refresh_tags", kind |-> kind]>>
    /\ documents' = <<>>
    /\ idx' = 1
    /\ all_results' = <<>>
    /\ calls' = <<>>
    /\ runs' = <<>>
    /\ IF kind = "ok"
       THEN /\ tag_n2i' = TagResolver_refresh(upTags).n2i @@ tag_n2i
            /\ tag_i2n' = TagResolver_refresh(upTags).i2n @@ tag_i2n
            /\ pollExc' = NoExc
            /\ pc' = "fields"
       ELSE /\ PollRaises(Raise("refresh_tags", kind))
            /\ UNCHANGED <<tag_n2i, tag_i2n>>
    /\ UNCHANGED <<upTags, upDocTags, uploaded, uploadAvailable, field_n2i,
                   failedDocs, stampedTypes, unit, texts>>

\* poll_once, line 1: tag_resolver.refresh()
RefreshTags(kind) ==
    /\ pc = "poll"
    /\ kind # "ok" => faults < MaxFaults
    /\ faults' = faults + (IF kind = "ok" THEN 0 ELSE 1)
    /\ trace' = <<[step |-> "refresh_tags", kind |-> kind]>>
    /\ documents' = <<>>
    /\ idx' = 1
    /\ all_results' = <<>>
    /\ calls' = <<>>
    /\ runs' = <<>>
    /\ IF kind = "ok"
       THEN /\ tag_n2i' = TagResolver_refresh(upTags).n2i
            /\ tag_i2n' = TagResolver_refresh(upTags).i2n
            /\ pollExc' = NoExc
            /\ pc' = "fields"
       ELSE /\ PollRaises(Raise("refresh_tags", kind))
            /\ UNCHANGED <<tag_n2i, tag_i2n>>
    /\ UNCHANGED <<upTags, upDocTags, uploaded, uploadAvailable, field_n2i,
                   failedDocs, stampedTypes, unit, texts>>

\* poll_once, line 2: field_resolver.refresh()
RefreshFields(kind) ==
    /\ pc = "fields"
    /\ kind # "ok" => faults < MaxFaults
    /\ faults' = faults + (IF kind = "ok" THEN 0 ELSE 1)
    /\ IF kind = "ok"
       THEN /\ field_n2i' = UpstreamFields
            /\ pc' = "discover"
            /\ UNCHANGED pollExc
       ELSE /\ PollRaises(Raise("refresh_fields", kind))
            /\ UNCHANGED field_n2i
    /\ trace' = Append(trace, [step |-> "refresh_fields", kind |-> kind])
    /\ UNCHANGED <<upTags, upDocTags, uploaded, uploadAvailable, tag_n2i,
                   tag_i2n, documents, idx, all_results, calls, runs,
                   failedDocs, stampedTypes, unit, texts>>

\* poll_once treating a failed discovery as "no documents".
Discover_swallows(kind) ==
    /\ pc = "discover"
    /\ kind # "ok" => faults < MaxFaults
    /\ faults' = faults + (IF kind = "ok" THEN 0 ELSE 1)
    /\ documents' = IF kind = "ok" THEN StampableDocuments(upDocTags, upTags)
                    ELSE <<>>
    /\ pc' = IF documents' = <<>> THEN "sleep" ELSE "process"
    /\ trace' = Append(trace, [step |-> "discover", kind |-> kind])
    /\ UNCHANGED <<upTags, upDocTags, uploaded, uploadAvailable, tag_n2i,
                   tag_i2n, field_n2i, idx, all_results, pollExc, calls, runs,
                   failedDocs, stampedTypes, unit, texts>>

\* poll_once: documents = client.get_stampable_documents()
Discover(kind) ==
    /\ pc = "discover"
    /\ kind # "ok" => faults < MaxFaults
    /\ faults' = faults + (IF kind = "ok" THEN 0 ELSE 1)
    /\ IF kind = "ok"
       THEN /\ documents' = StampableDocuments(upDocTags, upTags)
            /\ pc' = IF documents' = <<>> THEN "sleep" ELSE "process"
            /\ UNCHANGED pollExc
       ELSE /\ PollRaises(Raise("discover", kind))
            /\ UNCHANGED documents
    /\ trace' = Append(trace, [step |-> "discover", kind |-> kind])
    /\ UNCHANGED <<upTags, upDocTags, uploaded, uploadAvailable, tag_n2i,
                   tag_i2n, field_n2i, idx, all_results, calls, runs,
                   failedDocs, stampedTypes, unit, texts>>

\* poll_once putting each document's results in front of the earlier ones.
collect_results_prepends(results, r) ==
    IF r.raised = NoExc THEN r.results \o results ELSE results

\* poll_once: all_results.extend(results), skipped when the call raised.
collect_results(results, r) ==
    IF r.raised = NoExc THEN results \o r.results ELSE results

\* poll_once leaving the loop when process_document raised.
loop_position_aborts(r, i, n) ==
    IF r.raised # NoExc \/ i + 1 > n THEN "sleep" ELSE "process"

\* poll_once: where the loop stands after document i of n; the except clause
\* swallows whatever process_document raised, so the loop goes on.
loop_position(r, i, n) == IF i + 1 > n THEN "sleep" ELSE "process"

\* poll_once: one iteration of "for doc in documents".
ProcessDocument(plan) ==
    /\ pc = "process"
    /\ idx <= Len(documents)
    /\ faults + PlannedFaults(plan) <= MaxFaults
    /\ \E document \in {documents[idx]} :
       \E r \in {process_document(Machine, document, field_n2i, plan,
                                  uploadAvailable)} :
          /\ r.m.used = PlannedFaults(plan)
          /\ faults' = faults + r.m.used
          /\ upTags' = r.m.up
          /\ upDocTags' = r.m.docTags
          /\ uploaded' = r.m.uploaded
          /\ tag_n2i' = r.m.n2i
          /\ tag_i2n' = r.m.i2n
          /\ calls' = r.m.log
          /\ runs' = Append(runs, r.run)
          /\ all_results' = collect_results(all_results, r)
          /\ pc' = loop_position(r, idx, Len(documents))
          /\ failedDocs' = IF r.run.outcome \in {"failed", "raised"}
                           THEN failedDocs \cup {document.id}
                           ELSE failedDocs
          /\ stampedTypes' =
                IF r.run.outcome = "success"
                THEN [stampedTypes EXCEPT ![document.id] = @ \cup ToSet(r.run.types)]
                ELSE stampedTypes
    /\ idx' = idx + 1
    /\ UNCHANGED <<uploadAvailable, field_n2i, documents, pollExc, trace, unit, texts>>

\* run_worker: time.sleep(config.poll_interval), then the next cycle.
Sleep ==
    /\ pc = "sleep"
    /\ pc' = "poll"
    /\ UNCHANGED <<upTags, upDocTags, uploaded, uploadAvailable, tag_n2i,
                   tag_i2n, field_n2i, documents, idx, all_results, pollExc,
                   trace, calls, runs, faults, failedDocs, stampedTypes, unit, texts>>

\* run_worker: a sleep during which somebody deletes, in the store, a done
\* or error marker that no document carries (counted against the fault
\* budget).
ExternalDelete(t) ==
    /\ pc = "sleep"
    /\ pc' = "poll"
    /\ faults < MaxFaults
    /\ t \in DOMAIN upTags
    /\ \/ StartsWith(upTags[t], DONE_TAG_PREFIX)
       \/ upTags[t] = ERROR_TAG_NAME
    /\ \A d \in Docs : t \notin ToSet(upDocTags[d])
    /\ upTags' = [i \in DOMAIN upTags \ {t} |-> upTags[i]]
    /\ faults' = faults + 1
    /\ UNCHANGED <<upDocTags, uploaded, uploadAvailable, tag_n2i, tag_i2n,
                   field_n2i, documents, idx, all_results, pollExc, trace,
                   calls, runs, failedDocs, stampedTypes, unit, texts>>

Next ==
    \/ \E kind \in Kinds : RefreshTags(kind)
    \/ \E kind \in Kinds : RefreshFields(kind)
    \/ \E kind \in Kinds : Discover(kind)
    \/ \E plan \in Plans : ProcessDocument(plan)
    \/ Sleep
    \/ \E t \in DOMAIN upTags : ExternalDelete(t)

Spec == Init /\ [][Next]_vars

\* The control flow of run_worker and poll_once: the statement the program
\* stands at and the one it reaches next.  Every step of Next is a step of
\* ControlFlow, and a step of Next is possible wherever ControlFlow is.
ControlFlow ==
    \/ pc = "poll" /\ pc' \in {"fields", "sleep"} /\ idx' = 1
    \/ pc = "fields" /\ pc' \in {"discover", "sleep"} /\ UNCHANGED idx
    \/ pc = "discover" /\ pc' \in {"process", "sleep"} /\ UNCHANGED idx
    \/ pc = "process" /\ pc' \in {"process", "sleep"} /\ idx' = idx + 1
    \/ pc = "sleep" /\ pc' = "poll" /\ UNCHANGED idx

\* run_worker is one sequential loop whose every call returns or raises:
\* the statement it stands at is eventually executed.
FairSpec == Spec /\ WF_<<pc, idx>>(ControlFlow)

TypeOK ==
    /\ pc \in {"poll", "fields", "discover", "process", "sleep"}
    /\ faults \in 0..MaxFaults
    /\ idx \in 1..(NumDocs + 1)

\* ------------------------------------------- operations called on their own
\* The helpers and resolver operations are also called directly, as the
\* tests do, on inputs drawn from small sets; the worker does not run then.
workerVars == <<upTags, upDocTags, uploaded, uploadAvailable, tag_n2i, tag_i2n,
                field_n2i, pc, documents, idx, all_results, pollExc, trace,
                calls, runs, faults, failedDocs, stampedTypes, texts>>

WorkerIdle ==
    /\ upTags = InitialTags
    /\ upDocTags = [d \in Docs |-> <<>>]
    /\ uploaded = {}
    /\ uploadAvailable = FALSE
    /\ tag_n2i = << >>
    /\ tag_i2n = << >>
    /\ field_n2i = << >>
    /\ pc = "idle"
    /\ documents = <<>>
    /\ idx = 1
    /\ all_results = <<>>
    /\ pollExc = NoExc
    /\ trace = <<>>
    /\ calls = <<>>
    /\ runs = <<>>
    /\ faults = 0
    /\ failedDocs = {}
    /\ stampedTypes = [d \in Docs |-> {}]

\* The tag listing the resolver cache holds in these calls: id -> name.
UnitTags ==
    InitialTags @@
    (6 :> ERROR_TAG_NAME) @@
    (7 :> STAMP_TAG_PREFIX) @@
    (8 :> <<"S", "t", "a", "m", "p", ":">> \o TypeError)

\* A tag id the cache does not hold.
UnknownTagId == 12

\* Tag id lists of the document handed in.
UnitTagLists ==
    LET ids == DOMAIN UnitTags \cup {UnknownTagId}
    IN {<<>>} \cup {<<a>> : a \in ids} \cup {<<a, b>> : a, b \in ids}

ExtractCalls == [op : {"extract"}, tags : UnitTagLists, done : {FALSE}, out : {<<>>}]

\* _extract_stamp_types(document, tag_resolver)
UExtract ==
    /\ unit.op = "extract"
    /\ ~unit.done
    /\ unit' = [unit EXCEPT !.done = TRUE,
                            !.out = _extract_stamp_types([tags |-> unit.tags],
                                                         UnitTags)]
    /\ UNCHANGED workerVars

\* The machine of a direct call: store and caches hold UnitTags, document
\* doc_id carries the tags handed in, nothing has been called yet.
UnitMachine(doc_id, tags) ==
    [up |-> UnitTags,
     docTags |-> [d \in Docs |-> IF d = doc_id THEN tags ELSE <<>>],
     uploaded |-> {},
     n2i |-> TagResolver_refresh(UnitTags).n2i, i2n |-> UnitTags,
     f2i |-> UpstreamFields,
     log |-> <<>>, exc |-> NoExc, step |-> "none", used |-> 0, cur |-> {},
     ret |-> 0, stamps |-> <<>>]

\* The document snapshot handed to a direct call.
UnitDocument(doc_id, tags) ==
    [id |-> doc_id, tags |-> tags, custom_fields |-> DocCustomFields(doc_id),
     created |-> DocCreated(doc_id)]

\* Plans of a direct call: at most one failing step, the handler succeeds.
UnitPlans ==
    {plan \in Plans : /\ plan.kind # "unexpected"
                      /\ plan.hcreate = "ok"
                      /\ plan.hupdate = "ok"
                      /\ plan.hnote = "ok"}

ProcessCalls ==
    [op : {"process"}, doc : Docs, tags : UnitTagLists, plan : UnitPlans,
     canUpload : BOOLEAN, done : {FALSE}, out : {<<>>}]

\* process_document(client, document, config, tag_resolver, field_resolver)
UProcess ==
    /\ unit.op = "process"
    /\ ~unit.done
    /\ unit' = [unit EXCEPT
                   !.done = TRUE,
                   !.out = process_document(
                               UnitMachine(unit.doc, unit.tags),
                               UnitDocument(unit.doc, unit.tags),
                               UpstreamFields, unit.plan, unit.canUpload)]
    /\ UNCHANGED workerVars

\* Values a custom field entry of a document holds: null or a string.
FieldValues ==
    {None, Some(<<>>), Some(<<" ">>), Some(<<"\t", "\n">>), Some(<<"a">>),
     Some(<<" ", "a", "\n">>), Some(<<"a", " ", "b">>),
     Some(<<"\t", "a", " ", "b", " ">>)}

\* custom_fields lists of a document: at most one entry per field.
FieldLists ==
    LET entries == [field : {10, 11}, value : FieldValues]
    IN {<<>>} \cup {<<e>> : e \in entries}
       \cup {<<e, f>> : e \in {x \in entries : x.field = 10},
                        f \in {x \in entries : x.field = 11}}
       \cup {<<f, e>> : e \in {x \in entries : x.field = 10},
                        f \in {x \in entries : x.field = 11}}

\* Field names asked for; "Due Date" is not in the cache.
FieldNames == {"Paid Date", "Received Date", "Due Date"}

FieldCalls ==
    [op : {"field"}, name : FieldNames, cfs : FieldLists, done : {FALSE},
     out : {None}]

\* CustomFieldResolver.get_field_value(document, field_name)
UField ==
    /\ unit.op = "field"
    /\ ~unit.done
    /\ unit' = [unit EXCEPT
                   !.done = TRUE,
                   !.out = get_field_value(UpstreamFields,
                                           [custom_fields |-> unit.cfs],
                                           unit.name)]
    /\ UNCHANGED workerVars

\* Configurations of date resolution: the defaults, no field configured for
\* received, and each of them with the fallback switched off.
DateConfigs ==
    [date_fields : {ConfigDateFields, (TypePaid :> "Paid Date")},
     received_date_fallback : {"created", "none"}]

\* created of the document: missing, empty, date only, ISO timestamp.
CreatedValues ==
    {None, Some(<<>>), Some(<<"2", "0", "2", "4", "-", "0", "1", "-", "1", "0">>),
     DocCreated(2)}

DateCalls ==
    [op : {"date"}, config : DateConfigs,
     stamp_type : {TypePaid, TypeReceived, <<"d", "u", "e">>},
     cfs : {l \in FieldLists : Len(l) <= 1}, created : CreatedValues,
     done : {FALSE}, out : {None}]

\* _resolve_stamp_date(stamp_type, document, config, field_resolver)
UDate ==
    /\ unit.op = "date"
    /\ ~unit.done
    /\ unit' = [unit EXCEPT
                   !.done = TRUE,
                   !.out = resolve_stamp_date_under(
                               unit.config, unit.stamp_type,
                               [custom_fields |-> unit.cfs,
                                created |-> unit.created],
                               UpstreamFields)]
    /\ UNCHANGED workerVars

\* The machine of a direct resolver call: store up, caches refreshed from it.
ResolverMachine(up) ==
    [UnitMachine(1, <<>>) EXCEPT !.up = up,
                                 !.n2i = TagResolver_refresh(up).n2i,
                                 !.i2n = up]

\* Tag names ensure_tag is asked for.
EnsureNames ==
    {DONE_TAG_PREFIX \o TypePaid, DONE_TAG_PREFIX \o TypeReceived,
     ERROR_TAG_NAME, STAMP_TAG_PREFIX \o TypePaid}

EnsureCalls ==
    [op : {"ensure"}, up : {InitialTags, UnitTags}, name : EnsureNames,
     kind : Kinds, kind2 : Kinds, done : {FALSE}, out : {<<>>}]

\* tag_resolver.ensure_tag(name) twice in a row, without a refresh between;
\* the second call is made whether the first returned or raised.
UEnsure ==
    /\ unit.op = "ensure"
    /\ ~unit.done
    /\ LET first == ensure_tag(ResolverMachine(unit.up), 0, unit.name, unit.kind)
           second == ensure_tag([first EXCEPT !.exc = NoExc], 0, unit.name,
                                unit.kind2)
       IN unit' = [unit EXCEPT !.done = TRUE,
                               !.out = [first |-> first, second |-> second]]
    /\ UNCHANGED workerVars

\* ------------------------------------------------------------ merger.py
\* A PDF file as pikepdf sees it: bytes that do not parse ("garbage"), a
\* file that needs a password ("locked"), or a list of pages, each with its
\* MediaBox and the layers of its content.
Page(box, name) == [box |-> box, layers |-> <<name>>]

A4Box == <<0, 0, 595, 842>>
LetterBox == <<0, 0, 612, 792>>
ShiftedBox == <<10, 20, 310, 420>>

Garbage == [kind |-> "garbage", pages |-> <<>>]
Locked == [kind |-> "locked", pages |-> <<>>]
Pdf(pages) == [kind |-> "pdf", pages |-> pages]

\* The originals handed in: unreadable, encrypted, without pages, one to
\* three pages of different sizes.
Originals ==
    {Garbage, Locked, Pdf(<<>>),
     Pdf(<<Page(A4Box, "p1")>>),
     Pdf(<<Page(ShiftedBox, "p1")>>),
     Pdf(<<Page(LetterBox, "p1"), Page(A4Box, "p2")>>),
     Pdf(<<Page(A4Box, "p1"), Page(LetterBox, "p2"), Page(ShiftedBox, "p3")>>)}

\* The overlays handed in.
Overlays ==
    {Garbage, Locked, Pdf(<<>>),
     Pdf(<<Page(A4Box, "stamp")>>),
     Pdf(<<Page(LetterBox, "stamp")>>),
     Pdf(<<Page(A4Box, "stamp"), Page(A4Box, "extra")>>)}

\* What a call returns or raises.
Returned(v) == [exc |-> NoExc, value |-> Some(v)]
Raised(cls, msg) == [exc |-> [cls |-> cls, msg |-> msg], value |-> None]

\* pikepdf.open: the exception it raises for a file, NoExc when it opens.
pikepdf_open(pdf) ==
    IF pdf.kind = "locked" THEN [cls |-> "PasswordError", msg |-> "invalid password"]
    ELSE IF pdf.kind = "garbage" THEN [cls |-> "PdfError", msg |-> "unable to find trailer"]
    ELSE NoExc

\* get_page1_dimensions(pdf_bytes)
get_page1_dimensions(pdf) ==
    IF pikepdf_open(pdf).cls = "PasswordError"
    THEN Raised("StampMergeError", "PDF is encrypted")
    ELSE IF pikepdf_open(pdf).cls = "PdfError"
    THEN Raised("StampMergeError", "Invalid PDF")
    ELSE IF pdf.pages = <<>>
    THEN Raised("IndexError", "list index out of range")
    ELSE LET box == pdf.pages[1].box
         IN Returned(<<box[3] - box[1], box[4] - box[2]>>)

\* merge_stamp_overlay putting the overlay on the last page.
merge_stamp_overlay_last_page(original_pdf, overlay_pdf) ==
    IF "PasswordError" \in {pikepdf_open(original_pdf).cls, pikepdf_open(overlay_pdf).cls}
    THEN Raised("StampMergeError", "PDF is encrypted")
    ELSE IF "PdfError" \in {pikepdf_open(original_pdf).cls, pikepdf_open(overlay_pdf).cls}
    THEN Raised("StampMergeError", "Failed to merge PDFs")
    ELSE IF original_pdf.pages = <<>> \/ overlay_pdf.pages = <<>>
    THEN Raised("IndexError", "list index out of range")
    ELSE Returned([original_pdf EXCEPT
                      !.pages[Len(original_pdf.pages)].layers =
                          Append(@, overlay_pdf.pages[1].layers[1])])

\* merge_stamp_overlay(original_pdf, overlay_pdf): the original is opened
\* first, then the overlay; page 1 of the original gets page 1 of the overlay
\* as one more layer; the original is saved.
merge_stamp_overlay(original_pdf, overlay_pdf) ==
    IF pikepdf_open(original_pdf).cls = "PasswordError"
    THEN Raised("StampMergeError", "PDF is encrypted")
    ELSE IF pikepdf_open(original_pdf).cls = "PdfError"
    THEN Raised("StampMergeError", "Failed to merge PDFs")
    ELSE IF pikepdf_open(overlay_pdf).cls = "PasswordError"
    THEN Raised("StampMergeError", "PDF is encrypted")
    ELSE IF pikepdf_open(overlay_pdf).cls = "PdfError"
    THEN Raised("StampMergeError", "Failed to merge PDFs")
    ELSE IF original_pdf.pages = <<>> \/ overlay_pdf.pages = <<>>
    THEN Raised("IndexError", "list index out of range")
    ELSE Returned([original_pdf EXCEPT
                      !.pages[1].layers = Append(@, overlay_pdf.pages[1].layers[1])])

MergeCalls ==
    [op : {"merge"}, original : Originals, overlay : Overlays, done : {FALSE},
     out : {<<>>}]

\* merge_stamp_overlay(original_pdf, overlay_pdf)
UMerge ==
    /\ unit.op = "merge"
    /\ ~unit.done
    /\ unit' = [unit EXCEPT !.done = TRUE,
                            !.out = merge_stamp_overlay(unit.original, unit.overlay)]
    /\ UNCHANGED workerVars

DimsCalls == [op : {"dims"}, original : Originals, done : {FALSE}, out : {<<>>}]

\* get_page1_dimensions(pdf_bytes)
UDims ==
    /\ unit.op = "dims"
    /\ ~unit.done
    /\ unit' = [unit EXCEPT !.done = TRUE,
                            !.out = get_page1_dimensions(unit.original)]
    /\ UNCHANGED workerVars

\* ------------------------------------------------------------- stamp.py
\* Value of a hexadecimal digit.
HexValue ==
    [c \in {"0", "1", "2", "3", "4", "5", "6", "7", "8", "9"} |->
        CHOOSE v \in 0..9 : <<"0", "1", "2", "3", "4", "5", "6", "7", "8", "9">>[v + 1] = c]
    @@ [c \in {"a", "b", "c", "d", "e", "f"} |->
        CHOOSE v \in 10..15 : <<"a", "b", "c", "d", "e", "f">>[v - 9] = c]
    @@ [c \in {"A", "B", "C", "D", "E", "F"} |->
        CHOOSE v \in 10..15 : <<"A", "B", "C", "D", "E", "F">>[v - 9] = c]

\* Value of a string of hexadecimal digits, most significant first.
RECURSIVE HexNumber(_)
HexNumber(s) ==
    IF s = <<>> THEN 0
    ELSE 16 * HexNumber(SubSeq(s, 1, Len(s) - 1)) + HexValue[s[Len(s)]]

\* int(s, 16): surrounding whitespace is stripped, one sign is accepted, a
\* 0x prefix is accepted, and what is left must be hexadecimal digits, at
\* least one.  None stands for ValueError.
int16(s) ==
    LET t == Strip(s)
        signed == t # <<>> /\ t[1] \in {"+", "-"}
        u == IF signed THEN Tail(t) ELSE t
        v == IF Len(u) >= 2 /\ u[1] = "0" /\ u[2] \in {"x", "X"}
             THEN SubSeq(u, 3, Len(u)) ELSE u
    IN IF v = <<>> \/ \E i \in 1..Len(v) : v[i] \notin DOMAIN HexValue
       THEN None
       ELSE Some(IF signed /\ t[1] = "-" THEN 0 - HexNumber(v) ELSE HexNumber(v))

\* str.lstrip("#")
RECURSIVE LStripHash(_)
LStripHash(s) == IF s # <<>> /\ Head(s) = "#" THEN LStripHash(Tail(s)) ELSE s

\* A float that is the quotient of two integers.
Ratio(num, den) == [num |-> num, den |-> den]

\* _hex_to_rgb(hex_color)
_hex_to_rgb(hex_color) ==
    LET h == LStripHash(hex_color)
    IN IF Len(h) # 6
       THEN Raised("StampGenerationError", "Invalid hex color")
       ELSE LET r == int16(SubSeq(h, 1, 2))
                g == int16(SubSeq(h, 3, 4))
                b == int16(SubSeq(h, 5, 6))
            IN IF r = None \/ g = None \/ b = None
               THEN Raised("StampGenerationError", "Invalid hex color")
               ELSE Returned(<<Ratio(r[1], 255), Ratio(g[1], 255), Ratio(b[1], 255)>>)

\* Two-character pieces color strings are put together from.
HexPairs ==
    {<<"0", "0">>, <<"3", "3">>, <<"9", "9">>, <<"f", "F">>, <<"G", "G">>,
     <<"+", "f">>, <<"-", "1">>, <<" ", "7">>, <<"0", "x">>}

\* Color strings handed in: nothing, one or two "#" in front of three pieces,
\* and strings that are too short or too long.
ColorStrings ==
    {pre \o p \o q \o r \o post :
        pre \in {<<>>, <<"#">>, <<"#", "#">>}, p \in HexPairs,
        q \in {<<"3", "3">>, <<"f", "F">>, <<"G", "G">>, <<"-", "1">>},
        r \in HexPairs, post \in {<<>>, <<"0">>}}
    \cup {<<>>, <<"#">>, <<"#", "F", "F", "F">>, <<"F", "F", "F", "F", "F">>}

HexCalls == [op : {"hex"}, color : ColorStrings, done : {FALSE}, out : {<<>>}]

\* _hex_to_rgb(hex_color)
UHex ==
    /\ unit.op = "hex"
    /\ ~unit.done
    /\ unit' = [unit EXCEPT !.done = TRUE, !.out = _hex_to_rgb(unit.color)]
    /\ UNCHANGED workerVars

\* The first 16 hexadecimal digits of hashlib.sha256(str(doc_id)).
sha256_hex16 ==
    (0 :> <<"5", "f", "e", "c", "e", "b", "6", "6", "f", "f", "c", "8", "6", "f", "3", "8">>) @@
    (1 :> <<"6", "b", "8", "6", "b", "2", "7", "3", "f", "f", "3", "4", "f", "c", "e", "1">>) @@
    (2 :> <<"d", "4", "7", "3", "5", "e", "3", "a", "2", "6", "5", "e", "1", "6", "e", "e">>) @@
    (3 :> <<"4", "e", "0", "7", "4", "0", "8", "5", "6", "2", "b", "e", "d", "b", "8", "b">>) @@
    (4 :> <<"4", "b", "2", "2", "7", "7", "7", "7", "d", "4", "d", "d", "1", "f", "c", "6">>) @@
    (5 :> <<"e", "f", "2", "d", "1", "2", "7", "d", "e", "3", "7", "b", "9", "4", "2", "b">>) @@
    (6 :> <<"e", "7", "f", "6", "c", "0", "1", "1", "7", "7", "6", "e", "8", "d", "b", "7">>) @@
    (7 :> <<"7", "9", "0", "2", "6", "9", "9", "b", "e", "4", "2", "c", "8", "a", "8", "e">>)

\* An unsigned integer wider than 31 bits, as three 16-bit limbs, the least
\* significant first; int(digits, 16) of eight hexadecimal digits.
Limbs(digits) == <<HexNumber(SubSeq(digits, 5, 8)), HexNumber(SubSeq(digits, 1, 4)), 0>>

LimbAdd(a, b) ==
    LET s1 == a[1] + b[1]
        s2 == a[2] + b[2] + (s1 \div 65536)
    IN <<s1 % 65536, s2 % 65536, a[3] + b[3] + (s2 \div 65536)>>

\* The arithmetic of _compute_tilt with half the divisor.
tilt_of_half_divisor(sign_source, magnitude_source) ==
    [sign |-> IF sign_source[1] % 2 = 0 THEN 1 ELSE 0 - 1,
     num |-> LimbAdd(<<65535, 32767, 0>>, LimbAdd(magnitude_source, magnitude_source)),
     den |-> <<65535, 32767, 0>>]

\* The arithmetic of _compute_tilt: sign * (1.0 + magnitude_source / 0xFFFFFFFF * 2.0),
\* as the exact quotient sign * num / den.
tilt_of(sign_source, magnitude_source) ==
    [sign |-> IF sign_source[1] % 2 = 0 THEN 1 ELSE 0 - 1,
     num |-> LimbAdd(<<65535, 65535, 0>>, LimbAdd(magnitude_source, magnitude_source)),
     den |-> <<65535, 65535, 0>>]

\* _compute_tilt(doc_id)
_compute_tilt(doc_id) ==
    tilt_of(Limbs(SubSeq(sha256_hex16[doc_id], 1, 8)),
            Limbs(SubSeq(sha256_hex16[doc_id], 9, 16)))

\* Pairs of 32-bit integers a digest can start with: those of the tabulated
\* documents, and the ends and the middle of the range.
TiltCalls ==
    [op : {"tilt"},
     sign_source : {Limbs(SubSeq(sha256_hex16[d], 1, 8)) : d \in DOMAIN sha256_hex16}
                   \cup {<<0, 0, 0>>, <<65535, 65535, 0>>},
     magnitude_source : {Limbs(SubSeq(sha256_hex16[d], 9, 16)) : d \in DOMAIN sha256_hex16}
                        \cup {<<0, 0, 0>>, <<1, 0, 0>>, <<65535, 32767, 0>>, <<0, 32768, 0>>,
                              <<65534, 65535, 0>>, <<65535, 65535, 0>>},
     done : {FALSE}, out : {<<>>}]

\* _compute_tilt on a digest that starts with the two integers
UTilt ==
    /\ unit.op = "tilt"
    /\ ~unit.done
    /\ unit' = [unit EXCEPT !.done = TRUE,
                            !.out = tilt_of(unit.sign_source, unit.magnitude_source)]
    /\ UNCHANGED workerVars

\* Lengths are held in thousandths of a point and ratios in thousandths:
\* x times a ratio.
Scale(x, permille) == (x * permille) \div 1000

_STAMP_WIDTH_RATIO == 200
_STAMP_RIGHT_EDGE == 900
_STAMP_TOP_EDGE == 900
_STACK_SPACING == 1300
_DATE_FONT_RATIO == 350
_PADDING_RATIO == 250

\* reportlab.lib.units.mm, in thousandths of a point
mm == 2835

Max(a, b) == IF a >= b THEN a ELSE b
Abs(x) == IF x < 0 THEN 0 - x ELSE x

\* _fit_font_size that ignores the padding.
fit_font_size_unpadded(text, max_width, padding) ==
    IF max_width <= 0 \/ text = <<>> THEN 8000
    ELSE Max((max_width * 10) \div (Len(text) * 6), 8000)

\* _fit_font_size(text, max_width, padding)
_fit_font_size(text, max_width, padding) ==
    LET available == max_width - 2 * padding
    IN IF available <= 0 \/ text = <<>> THEN 8000
       ELSE Max((available * 10) \div (Len(text) * 6), 8000)

\* _calculate_stamp_layout(stamp, stamp_width)
_calculate_stamp_layout(stamp, stamp_width) ==
    LET font_size == _fit_font_size(stamp.text, stamp_width,
                                    Scale(stamp_width, _PADDING_RATIO))
        padding == Scale(font_size, _PADDING_RATIO)
        date_font_size == Scale(font_size, _DATE_FONT_RATIO)
    IN [width |-> stamp_width,
        height |-> IF stamp.date # None /\ stamp.date[1] # <<>>
                   THEN font_size + date_font_size + 2 * mm + 2 * padding
                   ELSE font_size + 2 * padding,
        font_size |-> font_size,
        date_font_size |-> date_font_size,
        padding |-> padding]

\* Stamp texts of 0, 4, 8, 13 and 20 characters, box widths of an A4 and of a
\* Letter page and widths that leave no room, with and without a date.
LayoutCalls ==
    [op : {"layout"},
     text : {<<>>, <<"p", "a", "i", "d">>, <<"R", "E", "C", "E", "I", "V", "E", "D">>,
             <<"Z", "u", "r", " ", "Z", "a", "h", "l", "u", "n", "g", " ", "1">>,
             <<"n", "o", "t", " ", "f", "o", "r", " ", "d", "i", "s", "t", "r", "i", "b",
               "u", "t", "i", "o", "n">>},
     stamp_width : {0 - 2000, 0, 1, 40000, 119056, 122400},
     date : {None, Some(<<>>), Some(<<"2", "0", "2", "4", "-", "0", "1", "-", "1", "5">>)},
     done : {FALSE}, out : {<<>>}]

\* _calculate_stamp_layout(stamp, stamp_width)
ULayout ==
    /\ unit.op = "layout"
    /\ ~unit.done
    /\ unit' = [unit EXCEPT
                   !.done = TRUE,
                   !.out = _calculate_stamp_layout(
                               StampConfig(unit.text, 1, unit.date), unit.stamp_width)]
    /\ UNCHANGED workerVars

\* |math.cos| and |math.sin| of math.radians(tilt), in ten-thousandths, for
\* the tilts of the tabulated documents.
cos_sin(tilt_degrees) ==
    LET table == (0 :> <<9986, 523>>) @@ (1 :> <<9986, 522>>) @@ (2 :> <<9997, 227>>) @@
                 (3 :> <<9995, 309>>) @@ (4 :> <<9989, 465>>) @@ (5 :> <<9988, 485>>) @@
                 (6 :> <<9994, 337>>) @@ (7 :> <<9988, 486>>)
    IN table[CHOOSE d \in DOMAIN sha256_hex16 : _compute_tilt(d) = tilt_degrees]

\* _projected_half_height(stamp_width, stamp_height, tilt_degrees)
_projected_half_height(stamp_width, stamp_height, tilt_degrees) ==
    (Abs((stamp_height * cos_sin(tilt_degrees)[1]) \div 10000)
     + Abs((stamp_width * cos_sin(tilt_degrees)[2]) \div 10000)) \div 2

\* The loop of _calculate_stamp_placements when the next top edge is taken
\* from the center of the stamp above.
RECURSIVE stack_from_center(_, _, _, _, _)
stack_from_center(stamps, k, next_stamp_top_edge, stamp_center_x, stamp_width) ==
    IF k > Len(stamps) THEN <<>>
    ELSE LET layout == _calculate_stamp_layout(stamps[k], stamp_width)
             tilt_degrees == _compute_tilt(stamps[k].doc_id)
             projected_half_height ==
                 _projected_half_height(layout.width, layout.height, tilt_degrees)
             stamp_center_y == next_stamp_top_edge - projected_half_height
             stack_gap == Scale(layout.height, _STACK_SPACING - 1000)
         IN <<[stamp |-> stamps[k], layout |-> layout, tilt_degrees |-> tilt_degrees,
               center_x |-> stamp_center_x, center_y |-> stamp_center_y]>>
            \o stack_from_center(stamps, k + 1, stamp_center_y - stack_gap,
                                 stamp_center_x, stamp_width)

\* The loop of _calculate_stamp_placements from the k-th stamp on.
RECURSIVE stack(_, _, _, _, _)
stack(stamps, k, next_stamp_top_edge, stamp_center_x, stamp_width) ==
    IF k > Len(stamps) THEN <<>>
    ELSE LET layout == _calculate_stamp_layout(stamps[k], stamp_width)
             tilt_degrees == _compute_tilt(stamps[k].doc_id)
             projected_half_height ==
                 _projected_half_height(layout.width, layout.height, tilt_degrees)
             stamp_center_y == next_stamp_top_edge - projected_half_height
             stack_gap == Scale(layout.height, _STACK_SPACING - 1000)
         IN <<[stamp |-> stamps[k], layout |-> layout, tilt_degrees |-> tilt_degrees,
               center_x |-> stamp_center_x, center_y |-> stamp_center_y]>>
            \o stack(stamps, k + 1, stamp_center_y - projected_half_height - stack_gap,
                     stamp_center_x, stamp_width)

\* _calculate_stamp_placements centering the stamps on the 90% line.
calculate_stamp_placements_centered(page_width, page_height, stamps, stamp_width) ==
    stack(stamps, 1, Scale(page_height, _STAMP_TOP_EDGE),
          Scale(page_width, _STAMP_RIGHT_EDGE), stamp_width)

\* _calculate_stamp_placements(page_width, page_height, stamps, stamp_width)
_calculate_stamp_placements(page_width, page_height, stamps, stamp_width) ==
    stack(stamps, 1, Scale(page_height, _STAMP_TOP_EDGE),
          Scale(page_width, _STAMP_RIGHT_EDGE) - stamp_width \div 2, stamp_width)

\* Lists of up to three stamps of different text lengths, documents and
\* dates, on an A4, a Letter and a degenerate page, with the box width the
\* overlay uses and with a wider one.
PlacementCalls ==
    LET date == Some(<<"2", "0", "2", "4", "-", "0", "1", "-", "1", "5">>)
        stamps == {StampConfig(<<"p", "a", "i", "d">>, 1, date),
                   StampConfig(<<"r", "e", "c", "e", "i", "v", "e", "d">>, 2, None),
                   StampConfig(<<"n", "o", "t", " ", "f", "o", "r", " ", "d", "i", "s", "t",
                                 "r", "i", "b", "u", "t", "i", "o", "n">>, 3, None),
                   StampConfig(<<>>, 4, date)}
        lists == {<<>>} \cup {<<a>> : a \in stamps}
                 \cup {<<a, b>> : a \in stamps, b \in stamps}
                 \cup {<<a, b, c>> : a \in stamps, b \in stamps, c \in stamps}
    IN {[op |-> "place", page_width |-> page[1], page_height |-> page[2], stamps |-> l,
         stamp_width |-> w, done |-> FALSE, out |-> <<>>] :
            page \in {<<595280, 841890>>, <<612000, 792000>>, <<0 - 1000, 0>>},
            l \in lists, w \in {119056, 122400, 200000}}

\* _calculate_stamp_placements(page_width, page_height, stamps, stamp_width)
UPlace ==
    /\ unit.op = "place"
    /\ ~unit.done
    /\ unit' = [unit EXCEPT
                   !.done = TRUE,
                   !.out = _calculate_stamp_placements(
                               unit.page_width, unit.page_height, unit.stamps,
                               unit.stamp_width)]
    /\ UNCHANGED workerVars

\* str(n) of an integer n >= 0
RECURSIVE str(_)
str(n) ==
    LET digit == <<"0", "1", "2", "3", "4", "5", "6", "7", "8", "9">>[(n % 10) + 1]
    IN IF n < 10 THEN <<digit>> ELSE str(n \div 10) \o <<digit>>

\* _draw_stamp(c, cx, cy, tilt, stamp, layout): the mark drawn, with the
\* seed of its jitter generator, f"{stamp.doc_id}:{stamp.text}".
_draw_stamp(cx, cy, tilt, stamp, layout) ==
    LET color == _hex_to_rgb(stamp.color)
    IN IF color.exc # NoExc THEN color
       ELSE Returned([seed |-> str(stamp.doc_id) \o <<":">> \o stamp.text,
                      color |-> color.value[1], text |-> stamp.text,
                      date |-> IF stamp.date # None /\ stamp.date[1] # <<>>
                               THEN stamp.date ELSE None,
                      cx |-> cx, cy |-> cy, tilt |-> tilt,
                      w |-> layout.width, h |-> layout.height])

\* generate_stamp_overlay that looks at the page width only.
generate_stamp_overlay_width_only(page_width, page_height, stamps) ==
    IF stamps = <<>>
    THEN Raised("StampGenerationError", "At least one stamp is required")
    ELSE IF page_width <= 0
    THEN Raised("StampGenerationError", "Invalid page dimensions")
    ELSE Returned(Pdf(<<Page(<<0, 0, page_width, page_height>>, <<>>)>>))

\* generate_stamp_overlay(page_width, page_height, stamps): a PDF of one page
\* of the size of the page, whose layer is the marks drawn.
generate_stamp_overlay(page_width, page_height, stamps) ==
    IF stamps = <<>>
    THEN Raised("StampGenerationError", "At least one stamp is required")
    ELSE IF page_width <= 0 \/ page_height <= 0
    THEN Raised("StampGenerationError", "Invalid page dimensions")
    ELSE LET placements ==
                 _calculate_stamp_placements(page_width, page_height, stamps,
                                             Scale(page_width, _STAMP_WIDTH_RATIO))
             drawn == [k \in 1..Len(placements) |->
                          _draw_stamp(placements[k].center_x, placements[k].center_y,
                                      placements[k].tilt_degrees, placements[k].stamp,
                                      placements[k].layout)]
         IN IF \E k \in 1..Len(drawn) : drawn[k].exc # NoExc
            THEN drawn[CHOOSE k \in 1..Len(drawn) :
                          /\ drawn[k].exc # NoExc
                          /\ \A j \in 1..(k - 1) : drawn[j].exc = NoExc]
            ELSE Returned(Pdf(<<Page(<<0, 0, page_width, page_height>>,
                                     [k \in 1..Len(drawn) |-> drawn[k].value[1]])>>))

\* Page sizes with a width or a height below, at and above 0, and lists of
\* stamps: none, one, one of a color that is no color, the stamps of a
\* document tagged stamp:paid and stamp:received, those of a document tagged
\* stamp:paid and stamp:bezahlt when STAMP_TEXT_PAID is Bezahlt, and stamps
\* of the same text of two documents.
OverlayCalls ==
    LET date == Some(<<"2", "0", "2", "4", "-", "0", "1", "-", "1", "5">>)
        blue == <<"#", "0", "0", "3", "3", "9", "9">>
        Colored(s, c) ==
            [text |-> s.text, doc_id |-> s.doc_id, date |-> s.date, color |-> c]
        paid == Colored(StampConfig(<<"P", "A", "I", "D">>, 1, date), blue)
    IN [op : {"overlay"},
        page_width : {0 - 1000, 0, 595280, 612000},
        page_height : {0 - 1000, 0, 841890},
        stamps : {<<>>,
                  <<paid>>,
                  <<Colored(StampConfig(<<"P", "A", "I", "D">>, 1, date), <<"b", "l", "u", "e">>)>>,
                  <<paid, Colored(StampConfig(<<"R", "E", "C", "E", "I", "V", "E", "D">>, 1, None),
                                  blue)>>,
                  <<Colored(StampConfig(<<"B", "e", "z", "a", "h", "l", "t">>, 1, date), blue),
                    Colored(StampConfig(<<"b", "e", "z", "a", "h", "l", "t">>, 1, None), blue)>>,
                  <<paid, Colored(StampConfig(<<"P", "A", "I", "D">>, 2, date), blue)>>},
        done : {FALSE}, out : {<<>>}]

\* generate_stamp_overlay(page_width, page_height, stamps)
UOverlay ==
    /\ unit.op = "overlay"
    /\ ~unit.done
    /\ unit' = [unit EXCEPT
                   !.done = TRUE,
                   !.out = generate_stamp_overlay(unit.page_width, unit.page_height,
                                                  unit.stamps)]
    /\ UNCHANGED workerVars

\* ------------------------------------------------------------ client.py
\* The classes of httpx an exception of the transport is an instance of.
httpx_classes ==
    [cls \in {"ConnectError", "ReadError"} |-> {cls, "NetworkError", "TransportError"}]
    @@ [cls \in {"ConnectTimeout", "ReadTimeout"} |->
           {cls, "TimeoutException", "TransportError"}]
    @@ [cls \in {"RemoteProtocolError"} |-> {cls, "ProtocolError", "TransportError"}]

\* PaperlessAPIError(status_code, detail)
PaperlessAPIError(status_code, detail) ==
    [cls |-> "PaperlessAPIError",
     msg |-> IF detail # <<>>
             THEN <<"A", "P", "I", " ", "e", "r", "r", "o", "r", " ">> \o str(status_code)
                  \o <<":", " ">> \o detail
             ELSE <<"A", "P", "I", " ", "e", "r", "r", "o", "r", " ">> \o str(status_code),
     status_code |-> status_code,
     detail |-> detail]

\* PaperlessClient._request(method, path), given what httpx does with the
\* request: raise sent.exc, or return the response sent.
_request(sent) ==
    IF sent.exc # "none" /\ "ConnectError" \in httpx_classes[sent.exc]
    THEN Raised("PaperlessConnectionError", "Cannot connect")
    ELSE IF sent.exc # "none" /\ "TimeoutException" \in httpx_classes[sent.exc]
    THEN Raised("PaperlessConnectionError", "Request timed out")
    ELSE IF sent.exc # "none"
    THEN Raised(sent.exc, "")
    ELSE IF sent.status_code = 401
    THEN Raised("PaperlessAuthError", "Invalid or expired API token")
    ELSE IF sent.status_code = 403
    THEN Raised("PaperlessAuthError", "Insufficient permissions")
    ELSE IF sent.status_code >= 400
    THEN [exc |-> PaperlessAPIError(sent.status_code, Take(sent.text, 500)),
          value |-> None]
    ELSE Returned([status_code |-> sent.status_code, text |-> sent.text])

\* What the transport does with a request: one of its errors, or a response
\* with a status and a body of 0, 9 or 501 characters.
RequestCalls ==
    [op : {"request"},
     exc : {"none"} \cup DOMAIN httpx_classes,
     status_code : {200, 204, 302, 399, 400, 401, 403, 404, 500},
     text : {<<>>, <<"N", "o", "t", " ", "f", "o", "u", "n", "d">>, [i \in 1..501 |-> "x"]},
     done : {FALSE}, out : {<<>>}]

\* PaperlessClient._request(method, path)
URequest ==
    /\ unit.op = "request"
    /\ ~unit.done
    /\ unit' = [unit EXCEPT !.done = TRUE, !.out = _request(unit)]
    /\ UNCHANGED workerVars

\* The loop of _get_all_pages from page j on, fetched by the n-th request;
\* the request numbered fail raises.
RECURSIVE follow_next(_, _, _, _)
follow_next(pages, j, n, fail) ==
    IF fail = n THEN Raised("PaperlessAPIError", "API error 500")
    ELSE IF pages[j].next = 0 THEN Returned(pages[j].results)
    ELSE LET rest == follow_next(pages, pages[j].next, n + 1, fail)
         IN IF rest.exc # NoExc THEN rest
            ELSE Returned(pages[j].results \o rest.value[1])

\* _get_all_pages returning what it has when a later page fails.
get_all_pages_partial(pages, fail) ==
    IF fail = 1 THEN Raised("PaperlessAPIError", "API error 500")
    ELSE IF pages[1].next = 0 THEN Returned(pages[1].results)
    ELSE LET rest == follow_next(pages, pages[1].next, 2, fail)
         IN IF rest.exc # NoExc THEN Returned(pages[1].results)
            ELSE Returned(pages[1].results \o rest.value[1])

\* PaperlessClient._get_all_pages(path) on a server whose answer to path is
\* pages[1] and whose `next` links lead to the other pages (0: no `next`).
_get_all_pages(pages, fail) == follow_next(pages, 1, 1, fail)

\* Three pages of no, one or two results each, whose `next` is missing or
\* leads to a later page; no request fails, or the first, second or third.
PageCalls ==
    [op : {"pages"},
     pages : {<<[results |-> r1, next |-> n1], [results |-> r2, next |-> n2],
                [results |-> r3, next |-> 0]>> :
                 r1 \in {<<>>, <<11>>, <<11, 12>>}, n1 \in {0, 2, 3},
                 r2 \in {<<>>, <<21>>, <<21, 22>>}, n2 \in {0, 3},
                 r3 \in {<<>>, <<31>>, <<31, 32>>}},
     fail : 0..3,
     done : {FALSE}, out : {<<>>}]

\* PaperlessClient._get_all_pages(path)
UPages ==
    /\ unit.op = "pages"
    /\ ~unit.done
    /\ unit' = [unit EXCEPT !.done = TRUE, !.out = _get_all_pages(unit.pages, unit.fail)]
    /\ UNCHANGED workerVars

\* process_document on a snapshot taken at discovery while another actor
\* works on the same document in the store: tags is the snapshot, upstream
\* the tag list the store holds for the document now.
RaceCalls ==
    {[op |-> "race", doc |-> 1, tags |-> tags, upstream |-> tags, plan |-> plan,
      canUpload |-> canUpload, done |-> FALSE, out |-> <<>>] :
         tags \in {<<1>>, <<1, 4>>, <<2, 1, 4>>, <<3>>},
         plan \in {p \in UnitPlans : p.step \in {"none", "merge", "update"}},
         canUpload \in BOOLEAN}

\* Another actor replaces the document's tag list in the store, adding or
\* removing the tag `invoice` (id 4), after the snapshot was taken.
UExternalRetag ==
    /\ unit.op = "race"
    /\ ~unit.done
    /\ unit.upstream = unit.tags
    /\ unit' = [unit EXCEPT
                   !.upstream = IF 4 \in ToSet(unit.tags)
                                THEN SelectSeq(unit.tags, LAMBDA t : t # 4)
                                ELSE Append(unit.tags, 4)]
    /\ UNCHANGED workerVars

\* process_document(document, ...) with the snapshot, on the store as it is
URace ==
    /\ unit.op = "race"
    /\ ~unit.done
    /\ unit' = [unit EXCEPT
                   !.done = TRUE,
                   !.out = process_document(
                               [UnitMachine(unit.doc, unit.tags) EXCEPT
                                   !.docTags[unit.doc] = unit.upstream],
                               UnitDocument(unit.doc, unit.tags),
                               UpstreamFields, unit.plan, unit.canUpload)]
    /\ UNCHANGED workerVars

\* texts of the configuration: the defaults, or STAMP_TEXT_PAID=Bezahlt.
TextConfigs ==
    {ConfigTexts,
     [ConfigTexts EXCEPT ![TypePaid] = <<"B", "e", "z", "a", "h", "l", "t">>]}

UnitInit ==
    /\ WorkerIdle
    /\ texts \in TextConfigs
    /\ unit \in ExtractCalls \cup ProcessCalls \cup FieldCalls \cup DateCalls
                \cup EnsureCalls
                \cup MergeCalls
                \cup DimsCalls
                \cup HexCalls
                \cup TiltCalls
                \cup LayoutCalls
                \cup PlacementCalls
                \cup OverlayCalls
                \cup RequestCalls
                \cup PageCalls
                \cup RaceCalls

UnitNext ==
    \/ UExtract
    \/ UProcess
    \/ UField
    \/ UDate
    \/ UEnsure
    \/ UMerge
    \/ UDims
    \/ UHex
    \/ UTilt
    \/ ULayout
    \/ UPlace
    \/ UOverlay
    \/ URequest
    \/ UPages
    \/ UExternalRetag
    \/ URace

UnitSpec == UnitInit /\ [][UnitNext]_vars

\* ------------------------------------------------------ reading the cycle
UpdateCalls(d) ==
    {i \in 1..Len(calls) : calls[i].op = "update" /\ calls[i].doc = d}
NoteCalls(d) ==
    {i \in 1..Len(calls) : calls[i].op = "note" /\ calls[i].doc = d}

\* Ids the cache gives to the trigger / done tags of a run's types.
TriggerIds(types) ==
    {tag_n2i[STAMP_TAG_PREFIX \o types[k]] :
        k \in {j \in 1..Len(types) : STAMP_TAG_PREFIX \o types[j] \in DOMAIN tag_n2i}}
DoneIds(types) ==
    {tag_n2i[DONE_TAG_PREFIX \o types[k]] :
        k \in {j \in 1..Len(types) : DONE_TAG_PREFIX \o types[j] \in DOMAIN tag_n2i}}

SwappedSet(run) == (run.tags \ TriggerIds(run.types)) \cup DoneIds(run.types)

RECURSIVE ResultsOf(_, _)
ResultsOf(results, d) ==
    IF results = <<>> THEN <<>>
    ELSE IF Head(results).document_id = d
         THEN <<Head(results)>> \o ResultsOf(Tail(results), d)
         ELSE ResultsOf(Tail(results), d)

PipelineSteps == {"download", "dims", "gen", "merge", "upload"}

\* ------------------------------------------------------------------- C1
SingleSwapUpdate(run) ==
    /\ Cardinality(UpdateCalls(run.doc)) = 1
    /\ \A i \in UpdateCalls(run.doc) :
          /\ ToSet(calls[i].arg) = SwappedSet(run)
          /\ \A t \in run.tags \ TriggerIds(run.types) : t \in ToSet(calls[i].arg)
          /\ \A k \in 1..Len(run.types) :
                DONE_TAG_PREFIX \o run.types[k] \in DOMAIN tag_n2i

\* C1 as stated: in every run in which download, dimension read, overlay
\* generation, merge, upload and tag creation succeed, update_document_tags
\* is called exactly once, with the snapshot's tags minus the stamp:<type>
\* ids plus the stamped:<type> ids.
C1_AsStated ==
    \A i \in 1..Len(runs) :
        (runs[i].types # <<>> /\ runs[i].step \in {"none", "update"})
            => SingleSwapUpdate(runs[i])

\* C1 amended: in every run in which download, dimension read, overlay
\* generation, merge, upload, tag creation and the tag update itself succeed,
\* update_document_tags is called exactly once for the document, with the
\* snapshot's tags minus the stamp:<type> ids plus the stamped:<type> ids,
\* every other tag of the snapshot included.
C1_SingleUpdateOnSuccess ==
    \A i \in 1..Len(runs) :
        runs[i].outcome = "success" => SingleSwapUpdate(runs[i])

\* A successful run on a document that carries a trigger tag, which the
\* update removed, and an unrelated tag, which it kept.
C1_Witness ==
    \E i \in 1..Len(runs) :
        /\ runs[i].outcome = "success"
        /\ runs[i].tags \cap TriggerIds(runs[i].types) # {}
        /\ \E t \in runs[i].tags :
              /\ ~StartsWith(Lower(upTags[t]), STAMP_TAG_PREFIX)
              /\ t \in ToSet(upDocTags[runs[i].doc])

\* ------------------------------------------------------------------- C2
\* C2: a pipeline step failing with an error of the PaperlessStampError
\* hierarchy is followed by one update_document_tags call (snapshot minus the
\* triggers plus stamp:error, no done tag added) and one add_note call whose
\* text contains the error message.
C2_ErrorMarking ==
    \A i \in 1..Len(runs) :
        LET run == runs[i] IN
        (run.step \in PipelineSteps /\ IsPaperlessStampError(run.exc)) =>
            /\ Cardinality(UpdateCalls(run.doc)) = 1
            /\ ERROR_TAG_NAME \in DOMAIN tag_n2i
            /\ \A j \in UpdateCalls(run.doc) :
                  ToSet(calls[j].arg) =
                      (run.tags \ TriggerIds(run.types))
                          \cup {tag_n2i[ERROR_TAG_NAME]}
            /\ Cardinality(NoteCalls(run.doc)) = 1
            /\ \A j \in NoteCalls(run.doc) :
                  \E k \in 1..Len(calls[j].arg) : calls[j].arg[k] = run.exc.msg

\* ------------------------------------------------------------------- C3
\* C3: once a pipeline step has failed with an error process_document
\* catches, process_document returns its failed results; it never raises out
\* of the failure path.
C3_FailurePathNeverRaises ==
    \A i \in 1..Len(runs) :
        (runs[i].step # "none" /\ CaughtByProcessDocument(runs[i].exc))
            => runs[i].outcome = "failed"

\* ------------------------------------------------------------------- C4
FailedResultFor(d, stamp_type, res) ==
    /\ res.document_id = d
    /\ res.stamp_type = stamp_type
    /\ res.success = FALSE
    /\ res.error_message # None
    /\ res.error_message[1] # ""
    /\ res.stamp_date = None

DownloadIn(log, d) ==
    \E i \in 1..Len(log) : log[i].op = "download" /\ log[i].doc = d

\* C5: once the pipeline run of a document has failed, no later step starts
\* the pipeline (download) for that document again.
C5_NoRetry ==
    [][\A d \in failedDocs : ~(DownloadIn(calls', d) /\ ~DownloadIn(calls, d))]_vars

\* ------------------------------------------------------------------- C6
\* C6: a successfully stamped document carries no tag that stamp-type
\* extraction treats as a trigger for a type it was stamped with.
C6_NoTriggerLeft ==
    \A d \in Docs :
        LET left == _extract_stamp_types([tags |-> upDocTags[d]], upTags)
        IN \A k \in 1..Len(left) : left[k] \notin stampedTypes[d]

\* ------------------------------------------------------------------- C7
RECURSIVE RunResults(_)
RunResults(rs) ==
    IF rs = <<>> THEN <<>> ELSE Head(rs).results \o RunResults(Tail(rs))

\* C7: when process_document raises for one document, poll_once adds no
\* result for it, still processes every later document of the discovery
\* list, and returns normally with the results of the other documents only.
C7_ContinuesAfterRaise ==
    \A i \in 1..Len(runs) :
        runs[i].outcome = "raised" =>
            /\ ResultsOf(all_results, runs[i].doc) = <<>>
            /\ all_results = RunResults(runs)
            /\ \A j \in 1..Len(runs) : runs[j].doc = documents[j].id
            /\ pc \in {"sleep", "poll"} =>
                  Len(runs) = Len(documents) /\ pollExc = NoExc

\* The first of two documents raised, the second was processed and reported.
C7_Witness ==
    /\ pc = "sleep"
    /\ Len(runs) = 2
    /\ runs[1].outcome = "raised"
    /\ runs[2].results # <<>>
    /\ all_results = runs[2].results

\* ------------------------------------------------------------------- C8
DiscoveryFailed ==
    /\ trace # <<>>
    /\ trace[Len(trace)].step = "discover"
    /\ trace[Len(trace)].kind # "ok"

\* C8: when get_stampable_documents fails, poll_once raises that error to
\* run_worker, and the cycle makes no download, upload, tag update, note or
\* tag creation call.
C8_DiscoveryFailurePropagates ==
    DiscoveryFailed =>
        /\ pollExc = Raise("discover", trace[Len(trace)].kind)
        /\ pc \in {"sleep", "poll"}
        /\ calls = <<>>
        /\ runs = <<>>
        /\ all_results = <<>>

\* A cycle whose discovery failed although documents are waiting upstream.
C8_Witness ==
    /\ DiscoveryFailed
    /\ pc = "sleep"
    /\ StampableDocuments(upDocTags, upTags) # <<>>

\* ------------------------------------------------------------------- C9
\* C9: whatever poll_once raises, run_worker goes on: every cycle ends in
\* the sleep, a cycle starts only out of the sleep, and cycles and sleeps
\* repeat forever.
C9_LoopNeverStops ==
    /\ []<>(pc = "poll")
    /\ []<>(pc = "sleep")
    /\ [][pc' = "poll" => pc = "sleep"]_vars
    /\ [][pc = "sleep" => pc' = "poll"]_vars
    /\ [](pollExc # NoExc => pc \in {"sleep", "poll"})

\* The next cycle is about to start after one that failed with an exception
\* outside the PaperlessStampError hierarchy.
C9_Witness ==
    /\ pc = "poll"
    /\ pollExc.cls = "RuntimeError"

\* ------------------------------------------------------------------ C10
Position(d) == CHOOSE k \in 1..Len(documents) : documents[k].id = d

\* C10: within a cycle every client call for an earlier document of the
\* discovery list precedes every client call for a later one, and the
\* results are in discovery order.
C10_DiscoveryOrder ==
    /\ \A i, j \in 1..Len(calls) :
          i < j => Position(calls[i].doc) <= Position(calls[j].doc)
    /\ \A i, j \in 1..Len(all_results) :
          i < j => Position(all_results[i].document_id)
                       <= Position(all_results[j].document_id)

\* Two documents were processed in one cycle, both with client calls and
\* both with results.
C10_Witness ==
    /\ Len(documents) = 2
    /\ \A k \in 1..2 :
          /\ \E i \in 1..Len(calls) : calls[i].doc = documents[k].id
          /\ \E i \in 1..Len(all_results) :
                all_results[i].document_id = documents[k].id

\* ------------------------------------------------------------------ C12
\* Name n starts with "stamp:", compared case-insensitively / literally.
HasStampPrefixAnyCase(n) ==
    /\ Len(n) >= Len(STAMP_TAG_PREFIX)
    /\ \A j \in 1..Len(STAMP_TAG_PREFIX) : LowerChar(n[j]) = STAMP_TAG_PREFIX[j]
HasStampPrefix(n) ==
    /\ Len(n) >= Len(STAMP_TAG_PREFIX)
    /\ \A j \in 1..Len(STAMP_TAG_PREFIX) : n[j] = STAMP_TAG_PREFIX[j]
SuffixOf(n) ==
    [j \in 1..(Len(n) - Len(STAMP_TAG_PREFIX)) |-> n[j + Len(STAMP_TAG_PREFIX)]]

\* The extraction is the list of the suffixes at the positions in hits.
ExtractionIs(out, tags, hits) ==
    /\ Len(out) = Cardinality(hits)
    /\ \A k \in 1..Len(out) : out[k] = SuffixOf(UnitTags[tags[Sorted(hits)[k]]])

\* C12 as stated: _extract_stamp_types returns, in tag-list order, the suffix
\* after stamp: of every tag whose name has the prefix stamp:, the error
\* marker excepted; other tags and unknown ids yield nothing.
C12_AsStated ==
    (unit.op = "extract" /\ unit.done) =>
        ExtractionIs(unit.out, unit.tags,
            {i \in 1..Len(unit.tags) :
                /\ unit.tags[i] \in DOMAIN UnitTags
                /\ HasStampPrefix(UnitTags[unit.tags[i]])
                /\ UnitTags[unit.tags[i]] # ERROR_TAG_NAME})

\* C12 amended: _extract_stamp_types returns, in tag-list order, the suffix
\* after the first six characters of every tag whose name starts with stamp:
\* in any letter case and whose suffix is neither empty nor exactly "error";
\* other tags and ids unknown to the cache yield nothing.
C12_ExtractStampTypes ==
    (unit.op = "extract" /\ unit.done) =>
        ExtractionIs(unit.out, unit.tags,
            {i \in 1..Len(unit.tags) :
                /\ unit.tags[i] \in DOMAIN UnitTags
                /\ HasStampPrefixAnyCase(UnitTags[unit.tags[i]])
                /\ SuffixOf(UnitTags[unit.tags[i]]) \notin {<<>>, TypeError}})

\* Two triggers extracted in list order, the larger tag id first.
C12_Witness ==
    /\ unit.op = "extract"
    /\ unit.done
    /\ unit.tags = <<2, 1>>
    /\ unit.out = <<TypeReceived, TypePaid>>

\* ------------------------------------------------------------------ C11
\* Tag id t names a trigger: a cached tag whose name starts with stamp: (in
\* any letter case) followed by a type that is not the error marker's.
IsTriggerTag(t) ==
    /\ t \in DOMAIN UnitTags
    /\ HasStampPrefixAnyCase(UnitTags[t])
    /\ SuffixOf(UnitTags[t]) \notin {<<>>, TypeError}

Trimmed(s) ==
    LET keep == {i \in 1..Len(s) : s[i] \notin {" ", "\t", "\n", "\r"}}
    IN IF keep = {} THEN <<>>
       ELSE SubSeq(s, CHOOSE a \in keep : \A b \in keep : a <= b,
                      CHOOSE a \in keep : \A b \in keep : a >= b)

\* The entries of custom_fields list cfs for the field cached under name.
EntriesFor(cfs, name) ==
    {i \in 1..Len(cfs) : name \in DOMAIN UpstreamFields
                         /\ cfs[i].field = UpstreamFields[name]}

\* C14: get_field_value returns the trimmed string value of the document's
\* entry for the field; it returns nothing when the field name is not in the
\* cache, the document has no entry for it, or the value is null or blank
\* after trimming.
C14_FieldValue ==
    (unit.op = "field" /\ unit.done) =>
        IF \E i \in EntriesFor(unit.cfs, unit.name) :
               /\ unit.cfs[i].value # None
               /\ Trimmed(unit.cfs[i].value[1]) # <<>>
        THEN \E i \in EntriesFor(unit.cfs, unit.name) :
                 unit.out = Some(Trimmed(unit.cfs[i].value[1]))
        ELSE unit.out = None

\* A value with whitespace on both sides and inside came back trimmed.
C14_Witness ==
    /\ unit.op = "field"
    /\ unit.done
    /\ unit.name = "Received Date"
    /\ Len(unit.cfs) = 2
    /\ unit.out = Some(<<"a", " ", "b">>)
    /\ \E i \in 1..2 : unit.cfs[i].value = Some(<<"\t", "a", " ", "b", " ">>)

\* ------------------------------------------------------------------ C13
\* The non-blank value of the custom field configured for the stamp type of
\* the call, when the document has one.
ConfiguredFieldValues ==
    IF unit.stamp_type \notin DOMAIN unit.config.date_fields THEN {}
    ELSE {Trimmed(unit.cfs[i].value[1]) :
             i \in {k \in EntriesFor(unit.cfs,
                                      unit.config.date_fields[unit.stamp_type]) :
                       /\ unit.cfs[k].value # None
                       /\ Trimmed(unit.cfs[k].value[1]) # <<>>}}

\* C13: _resolve_stamp_date returns the configured custom field's value when
\* that value is non-blank; otherwise, only when the type is received, the
\* fallback policy is created and the document has a created timestamp, the
\* first 10 characters of that timestamp; otherwise no date.
C13_ResolveStampDate ==
    (unit.op = "date" /\ unit.done) =>
        IF ConfiguredFieldValues # {}
        THEN unit.out # None /\ unit.out[1] \in ConfiguredFieldValues
        ELSE IF /\ unit.stamp_type = <<"r", "e", "c", "e", "i", "v", "e", "d">>
                /\ unit.config.received_date_fallback = "created"
                /\ unit.created \notin {None, Some(<<>>)}
        THEN /\ unit.out # None
             /\ Len(unit.out[1]) = IF Len(unit.created[1]) < 10
                                   THEN Len(unit.created[1]) ELSE 10
             /\ \A i \in 1..Len(unit.out[1]) : unit.out[1][i] = unit.created[1][i]
        ELSE unit.out = None

\* A received stamp whose field is blank took the date part of created.
C13_Witness ==
    /\ unit.op = "date"
    /\ unit.done
    /\ unit.stamp_type = TypeReceived
    /\ unit.config = DefaultConfig
    /\ unit.cfs = <<[field |-> 11, value |-> Some(<<" ">>)]>>
    /\ unit.created = DocCreated(2)
    /\ unit.out = Some(<<"2", "0", "2", "4", "-", "0", "1", "-", "1", "0">>)

\* ------------------------------------------------------------------ C15
\* The name asked for is in the cache when ensure_tag is called.
EnsureCached == \E i \in DOMAIN unit.up : unit.up[i] = unit.name

\* Map f and one more pair k -> v.
Plus(f, k, v) == [x \in DOMAIN f \cup {k} |-> IF x = k THEN v ELSE f[x]]

\* C15: ensure_tag(name) returns the cached id without a request when the
\* name is cached; otherwise it issues exactly one create request for the
\* name, records name -> id and id -> name in the cache and returns the new
\* id; a second ensure_tag(name) before the next refresh issues no request
\* and returns the same id.
C15_EnsureTag ==
    (unit.op = "ensure" /\ unit.done) =>
        LET before == ResolverMachine(unit.up)
            first == unit.out.first
            second == unit.out.second
        IN /\ EnsureCached =>
                /\ first.log = <<>>
                /\ first.exc = NoExc
                /\ unit.up[first.ret] = unit.name
                /\ first.n2i = before.n2i /\ first.i2n = before.i2n
                /\ first.up = unit.up
           /\ (~EnsureCached /\ unit.kind = "ok") =>
                /\ first.log = <<Call("create", 0, unit.name, TRUE)>>
                /\ first.exc = NoExc
                /\ first.ret \notin DOMAIN unit.up
                /\ first.n2i = Plus(before.n2i, unit.name, first.ret)
                /\ first.i2n = Plus(before.i2n, first.ret, unit.name)
                /\ first.up = Plus(unit.up, first.ret, unit.name)
           /\ (EnsureCached \/ unit.kind = "ok") =>
                /\ second.log = first.log
                /\ second.exc = NoExc
                /\ second.ret = first.ret
                /\ second.n2i = first.n2i /\ second.i2n = first.i2n
                /\ second.up = first.up

\* A tag that was not cached was created, and asked for again.
C15_Witness ==
    /\ unit.op = "ensure"
    /\ unit.done
    /\ unit.up = InitialTags
    /\ unit.name = ERROR_TAG_NAME
    /\ unit.kind = "ok"
    /\ Len(unit.out.second.log) = 1
    /\ unit.out.second.ret = 6

\* ------------------------------------------------------------------ C16
\* C16: when the create request of ensure_tag fails, the error propagates to
\* the caller and both cache maps are exactly as before the call (no entry
\* for the name is added).
C16_FailedCreateLeavesCache ==
    (unit.op = "ensure" /\ unit.done /\ ~EnsureCached /\ unit.kind # "ok") =>
        /\ unit.out.first.exc = Raise("create", unit.kind)
        /\ unit.out.first.log = <<Call("create", 0, unit.name, FALSE)>>
        /\ unit.out.first.n2i = TagResolver_refresh(unit.up).n2i
        /\ unit.out.first.i2n = unit.up
        /\ unit.name \notin DOMAIN unit.out.first.n2i
        /\ unit.out.first.up = unit.up

\* The create request failed with an API error and the next call asked the
\* store again.
C16_Witness ==
    /\ unit.op = "ensure"
    /\ unit.done
    /\ unit.name = DONE_TAG_PREFIX \o TypeReceived
    /\ unit.kind = "stamp"
    /\ unit.kind2 = "ok"
    /\ unit.out.first.exc.cls = "PaperlessAPIError"
    /\ Len(unit.out.second.log) = 2

\* ------------------------------------------------------------------ C17
\* The client calls this step added to the cycle's log.
NewCalls ==
    IF Len(calls') >= Len(calls) /\ SubSeq(calls', 1, Len(calls)) = calls
    THEN SubSeq(calls', Len(calls) + 1, Len(calls'))
    ELSE calls'

\* C17: ensure_tag is the only resolver operation that changes the external
\* store.  A step of the worker that refreshes the tag cache or the field
\* cache leaves the store's tags, document tags and uploads as they are and
\* issues no create, update, note or upload call; and whenever a step of the
\* worker adds a tag to the store, that tag is the subject of a successful
\* create request ensure_tag issued in that step, for a name its cache did
\* not hold.
C17_OnlyEnsureTagWrites ==
    [][/\ pc \in {"poll", "fields"} =>
            /\ UNCHANGED <<upTags, upDocTags, uploaded>>
            /\ \A i \in 1..Len(calls') :
                   calls'[i].op \notin {"create", "update", "note", "upload"}
       /\ pc # "sleep" =>
            \A t \in DOMAIN upTags' :
                (t \notin DOMAIN upTags \/ upTags'[t] # upTags[t]) =>
                    /\ upTags'[t] \notin DOMAIN tag_n2i
                    /\ \E i \in 1..Len(NewCalls) :
                          NewCalls[i] = Call("create", NewCalls[i].doc,
                                             upTags'[t], TRUE)]_vars

\* Both caches were refreshed in a cycle that follows one in which ensure_tag
\* created a tag.
C17_Witness ==
    /\ pc = "discover"
    /\ trace = <<[step |-> "refresh_tags", kind |-> "ok"],
                 [step |-> "refresh_fields", kind |-> "ok"]>>
    /\ \E t \in DOMAIN upTags : t \notin DOMAIN InitialTags
    /\ tag_i2n = upTags

\* ------------------------------------------------------------------ C18
\* The tag cache holds exactly the store's tag listing, in both directions.
TagCacheIsListing ==
    /\ DOMAIN tag_i2n = DOMAIN upTags
    /\ \A t \in DOMAIN upTags : tag_i2n[t] = upTags[t]
    /\ DOMAIN tag_n2i = {upTags[t] : t \in DOMAIN upTags}
    /\ \A n \in DOMAIN tag_n2i :
          tag_n2i[n] \in DOMAIN upTags /\ upTags[tag_n2i[n]] = n

\* C18: poll_once refreshes both caches at the start of every cycle, before
\* discovery: the cycle's first call is the tag refresh, the second the field
\* refresh, and discovery comes third, only after both succeeded.  After a
\* successful refresh each cache contains exactly the upstream listing:
\* entries cached earlier (by a refresh or by ensure_tag) whose tag is no
\* longer upstream are gone.
C18_RefreshBeforeDiscovery ==
    /\ \A i \in 1..Len(trace) :
          /\ i = 1 <=> trace[i].step = "refresh_tags"
          /\ i = 2 <=> trace[i].step = "refresh_fields"
          /\ i = 3 <=> trace[i].step = "discover"
          /\ i > 1 => trace[i - 1].kind = "ok"
    /\ pc \in {"fields", "discover", "process"} => Len(trace) >= 1
    /\ pc \in {"discover", "process"} => Len(trace) >= 2
    /\ pc = "process" => Len(trace) = 3 /\ trace[3].kind = "ok"
    /\ pc \in {"fields", "discover"} => TagCacheIsListing
    /\ pc = "discover" => field_n2i = UpstreamFields

\* The only fault so far is the deletion of the done marker with id 5, so
\* every refresh succeeded and the cache held the marker when it was deleted
\* during a sleep; the refresh of this cycle dropped it.
C18_Witness ==
    /\ pc = "discover"
    /\ faults = 1
    /\ 5 \notin DOMAIN upTags
    /\ 5 \notin DOMAIN tag_i2n
    /\ DONE_TAG_PREFIX \o TypePaid \notin DOMAIN tag_n2i
    /\ failedDocs # {}

\* ------------------------------------------------------------------ C19
\* C19 as stated: between one refresh and the next the tag cache and the
\* field cache are not modified by any operation of the cycle.
C19_AsStated ==
    [][(pc \in {"discover", "process", "sleep"}) =>
           (tag_n2i' = tag_n2i /\ tag_i2n' = tag_i2n /\ field_n2i' = field_n2i)]_vars

\* C19 amended: between one refresh and the next the field cache is not
\* modified, and no entry of the tag cache is removed or changed; the only
\* modification is that ensure_tag adds the name -> id and id -> name entries
\* of a tag it created with a successful create request.
C19_CacheOnlyGrowsByEnsureTag ==
    [][(pc \in {"discover", "process", "sleep"}) =>
           /\ UNCHANGED field_n2i
           /\ \A n \in DOMAIN tag_n2i :
                 n \in DOMAIN tag_n2i' /\ tag_n2i'[n] = tag_n2i[n]
           /\ \A t \in DOMAIN tag_i2n :
                 t \in DOMAIN tag_i2n' /\ tag_i2n'[t] = tag_i2n[t]
           /\ \A n \in DOMAIN tag_n2i' \ DOMAIN tag_n2i :
                 /\ \E i \in 1..Len(NewCalls) :
                       NewCalls[i] = Call("create", NewCalls[i].doc, n, TRUE)
                 /\ tag_n2i'[n] \in DOMAIN tag_i2n' \ DOMAIN tag_i2n
                 /\ tag_i2n'[tag_n2i'[n]] = n
           /\ \A t \in DOMAIN tag_i2n' \ DOMAIN tag_i2n :
                 /\ tag_i2n'[t] \in DOMAIN tag_n2i' \ DOMAIN tag_n2i
                 /\ tag_n2i'[tag_i2n'[t]] = t]_vars

\* In the middle of a cycle the tag cache holds a done marker that the
\* refresh of the cycle did not list: ensure_tag created and cached it.
C19_Witness ==
    /\ pc \in {"process", "sleep"}
    /\ Len(trace) = 3
    /\ \E i \in 1..Len(calls) :
          /\ calls[i].op = "create"
          /\ calls[i].ok
          /\ calls[i].arg = DONE_TAG_PREFIX \o TypeReceived
          /\ calls[i].arg \in DOMAIN tag_n2i
          /\ tag_i2n[tag_n2i[calls[i].arg]] = calls[i].arg

\* ------------------------------------------------------------------ C20
\* C20: on a successful run process_document returns exactly one StampResult
\* per extracted type, in extraction order, each with success = true,
\* stamp_type the type, stamp_text equal to the text of the stamp that was
\* rendered for that type (the per-type text, upper-cased) and stamp_date
\* equal to the date resolved for that type.
C20_SuccessResults ==
    (unit.op = "process" /\ unit.done /\ unit.out.run.outcome = "success") =>
        LET res == unit.out.results
            stamps == unit.out.run.stamps
            types == unit.out.run.types
        IN /\ Len(res) = Len(types)
           /\ Len(stamps) = Len(types)
           /\ \A k \in 1..Len(res) :
                 /\ res[k].success
                 /\ res[k].document_id = unit.doc
                 /\ res[k].stamp_type = types[k]
                 /\ res[k].stamp_text = stamps[k].text
                 /\ res[k].stamp_date = stamps[k].date

\* ------------------------------------------------------------------ C21
\* C21: for every readable original with n >= 1 pages and every single-page
\* overlay, merge_stamp_overlay returns a document with exactly n pages in
\* which every page other than page 1 is unchanged (content and box), page 1
\* keeps its box, and page 1 has gained exactly one overlay layer: its
\* content is the old content followed by the overlay's page.
C21_MergeKeepsPages ==
    (/\ unit.op = "merge"
     /\ unit.done
     /\ unit.original.kind = "pdf"
     /\ Len(unit.original.pages) >= 1
     /\ unit.overlay.kind = "pdf"
     /\ Len(unit.overlay.pages) = 1)
    => /\ unit.out.exc = NoExc
       /\ LET before == unit.original.pages
              after == unit.out.value[1].pages
          IN /\ Len(after) = Len(before)
             /\ \A i \in 2..Len(before) : after[i] = before[i]
             /\ after[1].box = before[1].box
             /\ Len(after[1].layers) = Len(before[1].layers) + 1
             /\ \A j \in 1..Len(before[1].layers) :
                   after[1].layers[j] = before[1].layers[j]
             /\ after[1].layers[Len(after[1].layers)] = "stamp"

\* A three-page original came back with the stamp on page 1.
C21_Witness ==
    /\ unit.op = "merge"
    /\ unit.done
    /\ Len(unit.original.pages) = 3
    /\ unit.overlay = Pdf(<<Page(LetterBox, "stamp")>>)
    /\ unit.out.exc = NoExc
    /\ unit.out.value[1].pages[1].layers = <<"p1", "stamp">>

\* ------------------------------------------------------------------ C22
\* C22: get_page1_dimensions and merge_stamp_overlay either return a
\* complete result or fail with a merge error and return nothing; an
\* encrypted original fails with a merge error whose message names
\* encryption, every other original from which page 1 cannot be read or
\* merged fails with a merge error that does not name encryption; no other
\* kind of error escapes.
C22_MergeErrorsOnly ==
    (unit.op \in {"merge", "dims"} /\ unit.done) =>
        /\ \/ unit.out.exc = NoExc /\ unit.out.value # None
           \/ unit.out.exc.cls = "StampMergeError" /\ unit.out.value = None
        /\ unit.original.kind = "locked" =>
              unit.out.exc = [cls |-> "StampMergeError", msg |-> "PDF is encrypted"]
        /\ (unit.original.kind = "garbage" \/ unit.original = Pdf(<<>>)) =>
              /\ unit.out.exc.cls = "StampMergeError"
              /\ unit.out.exc.msg # "PDF is encrypted"

\* ------------------------------------------------------------------ C24
\* The 16 hexadecimal digits, upper and lower case, and the value of one.
IsHexDigit(c) ==
    LowerChar(c) \in {"0", "1", "2", "3", "4", "5", "6", "7", "8", "9",
                      "a", "b", "c", "d", "e", "f"}
HexDigitValue(c) ==
    CHOOSE v \in 0..15 :
        <<"0", "1", "2", "3", "4", "5", "6", "7", "8", "9",
          "a", "b", "c", "d", "e", "f">>[v + 1] = LowerChar(c)

\* s is 6 hexadecimal digits, optionally preceded by "#"; its digits.
SixDigitsOf(s) == IF s # <<>> /\ s[1] = "#" THEN Tail(s) ELSE s
IsHexColor(s) ==
    /\ Len(SixDigitsOf(s)) = 6
    /\ \A i \in 1..6 : IsHexDigit(SixDigitsOf(s)[i])

\* C24: _hex_to_rgb succeeds exactly on strings that are 6 hexadecimal
\* digits (optionally preceded by #), returning each channel as its byte
\* value divided by 255, and fails with a generation error on every string
\* that is not exactly 6 valid hex digits.
C24_HexToRgb ==
    (unit.op = "hex" /\ unit.done) =>
        IF IsHexColor(unit.color)
        THEN /\ unit.out.exc = NoExc
             /\ \A k \in 1..3 :
                   unit.out.value[1][k] =
                       [num |-> 16 * HexDigitValue(SixDigitsOf(unit.color)[2 * k - 1])
                                + HexDigitValue(SixDigitsOf(unit.color)[2 * k]),
                        den |-> 255]
        ELSE /\ unit.out.exc.cls = "StampGenerationError"
             /\ unit.out.value = None

\* ------------------------------------------------------------------ C25
\* a <= b for integers held as three limbs
LimbLeq(a, b) ==
    \/ a[3] < b[3]
    \/ a[3] = b[3] /\ a[2] < b[2]
    \/ a[3] = b[3] /\ a[2] = b[2] /\ a[1] <= b[1]

\* C25: for every pair of 32-bit integers taken from the digest,
\* _compute_tilt returns a tilt with 1.0 <= |tilt| <= 3.0: negative exactly
\* when the first integer is odd, of magnitude 1 + 2 * second / (2^32 - 1);
\* and the tilt of a document is that of the two integers its id hashes to.
C25_TiltRange ==
    /\ (unit.op = "tilt" /\ unit.done) =>
          /\ unit.out.sign = (IF unit.sign_source[1] % 2 = 1 THEN 0 - 1 ELSE 1)
          /\ unit.out.den = <<65535, 65535, 0>>
          /\ LimbLeq(unit.magnitude_source, unit.out.den)
          /\ unit.out.num
                = LimbAdd(unit.out.den, LimbAdd(unit.magnitude_source, unit.magnitude_source))
          /\ LimbLeq(unit.out.den, unit.out.num)
          /\ LimbLeq(unit.out.num, LimbAdd(unit.out.den, LimbAdd(unit.out.den, unit.out.den)))
    /\ \A d \in DOMAIN sha256_hex16 :
          (/\ unit.op = "tilt" /\ unit.done
           /\ unit.sign_source = Limbs(SubSeq(sha256_hex16[d], 1, 8))
           /\ unit.magnitude_source = Limbs(SubSeq(sha256_hex16[d], 9, 16)))
          => unit.out = _compute_tilt(d)

\* the largest second integer with an odd first integer: the tilt is -3.0
C25_Witness ==
    /\ unit.op = "tilt" /\ unit.done
    /\ unit.magnitude_source = <<65535, 65535, 0>>
    /\ unit.sign_source[1] % 2 = 1
    /\ unit.out.sign = 0 - 1
    /\ unit.out.num = <<65533, 65535, 2>>

\* ------------------------------------------------------------------ C27
\* size is the largest font size at which text, at 0.6 * size per
\* character, is at most width wide
LargestFitting(size, text, width) ==
    /\ 6 * Len(text) * size <= 10 * width
    /\ 6 * Len(text) * (size + 1) > 10 * width

\* the font size asked for: the largest one fitting width, or 8 when that is
\* below 8 or the text is empty
FittedOrFloor(font_size, text, width) ==
    /\ font_size >= 8000
    /\ IF text = <<>> \/ ~(\E s \in 8000..(10 * Max(width, 0)) : LargestFitting(s, text, width))
       THEN font_size = 8000
       ELSE LargestFitting(font_size, text, width)

ProjectedTop(p) ==
    p.center_y + _projected_half_height(p.layout.width, p.layout.height, p.tilt_degrees)
ProjectedBottom(p) ==
    p.center_y - _projected_half_height(p.layout.width, p.layout.height, p.tilt_degrees)

\* C26: for each two consecutive placements k, k+1 that
\* _calculate_stamp_placements returns, the projected top edge of k+1 is the
\* projected bottom edge of k less height_k * (stack spacing - 1.0), and so
\* at or below it, whatever the box sizes and the tilts.
C26_StackedStampsApart ==
    (unit.op = "place" /\ unit.done) =>
        \A k \in 1..(Len(unit.out) - 1) :
            /\ ProjectedTop(unit.out[k + 1])
                  = ProjectedBottom(unit.out[k])
                    - (unit.out[k].layout.height * (_STACK_SPACING - 1000)) \div 1000
            /\ ProjectedTop(unit.out[k + 1]) <= ProjectedBottom(unit.out[k])

\* three stacked stamps of three heights and three tilts
C26_Witness ==
    /\ unit.op = "place" /\ unit.done
    /\ Len(unit.out) = 3
    /\ unit.out[1].layout.height > unit.out[2].layout.height
    /\ unit.out[2].layout.height > unit.out[3].layout.height
    /\ unit.out[1].tilt_degrees # unit.out[2].tilt_degrees
    /\ unit.out[2].tilt_degrees # unit.out[3].tilt_degrees
    /\ ProjectedTop(unit.out[3]) < ProjectedBottom(unit.out[2])

\* ------------------------------------------------------------------ C28
\* C28: _calculate_stamp_placements returns one placement per input stamp,
\* in input order; the projected top edge of the first is at 90% of the page
\* height and the right edge of every one (center_x + box width / 2) is at
\* 90% of the page width.
C28_PlacementsAnchored ==
    (unit.op = "place" /\ unit.done) =>
        /\ Len(unit.out) = Len(unit.stamps)
        /\ \A k \in 1..Len(unit.out) :
              /\ unit.out[k].stamp = unit.stamps[k]
              /\ unit.out[k].center_x + unit.out[k].layout.width \div 2
                    = (unit.page_width * 90) \div 100
        /\ unit.out # <<>> =>
              ProjectedTop(unit.out[1]) = (unit.page_height * 90) \div 100

\* two different stamps placed on a Letter page
C28_Witness ==
    /\ unit.op = "place" /\ unit.done
    /\ unit.page_width = 612000 /\ unit.page_height = 792000
    /\ unit.stamp_width = 122400
    /\ Len(unit.out) = 2
    /\ unit.out[1].stamp # unit.out[2].stamp
    /\ unit.out[1].center_x = 489600
    /\ ProjectedTop(unit.out[1]) = 712800

\* ------------------------------------------------------------------ C23
\* C23: generate_stamp_overlay fails with a generation error and produces no
\* overlay when the list of stamps is empty or the page width or the page
\* height is <= 0, whatever the other inputs are.
C23_OverlayRejectsBadInput ==
    (/\ unit.op = "overlay" /\ unit.done
     /\ (unit.stamps = <<>> \/ unit.page_width <= 0 \/ unit.page_height <= 0))
    => /\ unit.out.exc.cls = "StampGenerationError"
       /\ unit.out.value = None

\* a drawable stamp on a page of positive width and height 0 is refused
C23_Witness ==
    /\ unit.op = "overlay" /\ unit.done
    /\ Len(unit.stamps) = 2
    /\ unit.page_width = 595280
    /\ unit.page_height = 0
    /\ unit.out.exc.cls = "StampGenerationError"

\* ------------------------------------------------------------------ C29
\* the marks of the overlay a finished call of generate_stamp_overlay returned
Marks ==
    IF unit.op = "overlay" /\ unit.done /\ unit.out.exc = NoExc
    THEN unit.out.value[1].pages[1].layers[1]
    ELSE <<>>

\* C29: the jitter generator of a stamp is seeded from its document id and
\* its upper-cased text only, so that the same stamp is always drawn with
\* the same seed, and no two different stamps, of one overlay or of two
\* documents, are drawn with the same seed.
C29_SeedPerStamp ==
    \A k \in 1..Len(Marks), l \in 1..Len(Marks) :
        /\ (unit.stamps[k].doc_id = unit.stamps[l].doc_id
            /\ Upper(unit.stamps[k].text) = Upper(unit.stamps[l].text))
           => Marks[k].seed = Marks[l].seed
        /\ unit.stamps[k] # unit.stamps[l] => Marks[k].seed # Marks[l].seed

\* ------------------------------------------------------------------ C30
\* C30: every failure of a request of PaperlessClient reaches the caller as
\* one of three classes: a connectivity error when the store cannot be
\* reached, an authentication error for status 401 or 403, an API error
\* carrying the status code and the response detail for any other status
\* >= 400; a response of a status below 400 is returned.
C30_ThreeFailureClasses ==
    (unit.op = "request" /\ unit.done) =>
        /\ unit.out.exc # NoExc =>
              unit.out.exc.cls \in {"PaperlessConnectionError", "PaperlessAuthError",
                                    "PaperlessAPIError"}
        /\ unit.exc # "none" => unit.out.exc.cls = "PaperlessConnectionError"
        /\ (unit.exc = "none" /\ unit.status_code \in {401, 403}) =>
              unit.out.exc.cls = "PaperlessAuthError"
        /\ (unit.exc = "none" /\ unit.status_code >= 400 /\ unit.status_code \notin {401, 403}) =>
              /\ unit.out.exc.cls = "PaperlessAPIError"
              /\ unit.out.exc.status_code = unit.status_code
              /\ unit.out.exc.detail = SubSeq(unit.text, 1, IF Len(unit.text) < 500 THEN Len(unit.text) ELSE 500)
        /\ (unit.exc = "none" /\ unit.status_code < 400) =>
              /\ unit.out.exc = NoExc
              /\ unit.out.value[1].status_code = unit.status_code

\* ------------------------------------------------------------------ C31
\* the pages of a call, in the order the `next` links reach them from the
\* first: the one sequence that starts at page 1, steps along `next` and
\* ends at a page without `next`
ChainOf(pages) ==
    CHOOSE path \in UNION {[1..n -> 1..Len(pages)] : n \in 1..Len(pages)} :
        /\ path[1] = 1
        /\ \A k \in 1..(Len(path) - 1) : pages[path[k]].next = path[k + 1]
        /\ pages[path[Len(path)]].next = 0

\* x is the k-th result of the pages of path, taken in order
ResultAt(pages, path, k) ==
    LET before(i) == IF i = 1 THEN 0
                     ELSE IF i = 2 THEN Len(pages[path[1]].results)
                     ELSE Len(pages[path[1]].results) + Len(pages[path[2]].results)
        i == CHOOSE i \in 1..Len(path) :
                 k > before(i) /\ k <= before(i) + Len(pages[path[i]].results)
    IN pages[path[i]].results[k - before(i)]

\* C31: _get_all_pages returns the results of the first page and of every
\* page reached along the `next` links, in that order, up to the page
\* without `next`; when the request for one of these pages fails the call
\* fails and returns no partial listing.
C31_AllPagesInOrder ==
    (unit.op = "pages" /\ unit.done) =>
        LET path == ChainOf(unit.pages)
            total == IF Len(path) = 1 THEN Len(unit.pages[path[1]].results)
                     ELSE IF Len(path) = 2
                     THEN Len(unit.pages[path[1]].results) + Len(unit.pages[path[2]].results)
                     ELSE Len(unit.pages[path[1]].results) + Len(unit.pages[path[2]].results)
                          + Len(unit.pages[path[3]].results)
        IN IF unit.fail \in 1..Len(path)
           THEN unit.out.exc # NoExc /\ unit.out.value = None
           ELSE /\ unit.out.exc = NoExc
                /\ Len(unit.out.value[1]) = total
                /\ \A k \in 1..total :
                      unit.out.value[1][k] = ResultAt(unit.pages, path, k)

\* three pages followed to the end, and a listing lost to its third request
C31_Witness ==
    /\ unit.op = "pages" /\ unit.done
    /\ unit.pages[1].next = 2 /\ unit.pages[2].next = 3
    /\ \/ unit.fail = 0 /\ unit.out.exc = NoExc
          /\ unit.out.value[1] = <<11, 12, 21, 31, 32>>
       \/ unit.fail = 3 /\ unit.out.value = None
          /\ unit.pages[1].results # <<>>

\* ------------------------------------------------------------------ C32
\* The run was stopped by the NotImplementedError of upload_version.
UploadNotImplemented(run) ==
    run.step = "upload" /\ run.exc.cls = "NotImplementedError"

\* The marking the claim describes for such a run: one update with the
\* triggers removed, stamp:error added and no done tag added, one note, one
\* failed result per type carrying the message.
MarkedLikeApiFailure(run) ==
    /\ Cardinality(UpdateCalls(run.doc)) = 1
    /\ ERROR_TAG_NAME \in DOMAIN tag_n2i
    /\ \A j \in UpdateCalls(run.doc) :
          /\ ToSet(calls[j].arg) =
                (run.tags \ TriggerIds(run.types)) \cup {tag_n2i[ERROR_TAG_NAME]}
          /\ \A t \in ToSet(calls[j].arg) \ run.tags :
                t \in DOMAIN tag_i2n /\ ~StartsWith(tag_i2n[t], DONE_TAG_PREFIX)
    /\ Cardinality(NoteCalls(run.doc)) = 1
    /\ Len(ResultsOf(all_results, run.doc)) = Len(run.types)
    /\ \A k \in 1..Len(run.types) :
          /\ FailedResultFor(run.doc, run.types[k], ResultsOf(all_results, run.doc)[k])
          /\ ResultsOf(all_results, run.doc)[k].error_message = Some(run.exc.msg)

\* C32: when upload_version raises NotImplementedError, process_document
\* treats it like an API failure: one tag update with the triggers removed
\* and stamp:error added, one note, one failed result per type carrying the
\* message, no stamped:<type> tag added; with the shipped client, whose
\* upload_version always raises, no document is ever marked stamped.
C32_NotImplementedIsFailure ==
    /\ \A i \in 1..Len(runs) :
          UploadNotImplemented(runs[i]) => MarkedLikeApiFailure(runs[i])
    /\ ~uploadAvailable =>
          /\ uploaded = {}
          /\ \A d \in Docs : stampedTypes[d] = {}
          /\ \A i \in 1..Len(runs) : runs[i].outcome # "success"

\* ------------------------------------------------------------------ C33
\* positions of the client calls of one kind made for document d
CallsOf(op, d) == {i \in 1..Len(calls) : calls[i].op = op /\ calls[i].doc = d}

\* the update at position j adds a stamped:<type> id to the tags of the run
AddsDoneTag(run, j) ==
    \E t \in ToSet(calls[j].arg) \ run.tags :
        t \in DOMAIN tag_i2n /\ StartsWith(tag_i2n[t], DONE_TAG_PREFIX)

\* C33: in every run of process_document the client calls come in the order
\* download, upload, tag update, and a tag update that adds a stamped:<type>
\* id is issued only after upload_version returned successfully for that
\* document in the same run.
C33_UploadBeforeStamped ==
    \A r \in 1..Len(runs) :
        LET d == runs[r].doc IN
        /\ \A u \in CallsOf("upload", d) : \E i \in CallsOf("download", d) : i < u
        /\ \A j \in CallsOf("update", d) :
              /\ \E i \in CallsOf("download", d) : i < j
              /\ \A u \in CallsOf("upload", d) : u < j
              /\ AddsDoneTag(runs[r], j) =>
                    \E u \in CallsOf("upload", d) : u < j /\ calls[u].ok

\* a run whose update adds a stamped:<type> id after a successful upload
C33_Witness ==
    \E r \in 1..Len(runs) :
        \E j \in CallsOf("update", runs[r].doc) :
            /\ AddsDoneTag(runs[r], j)
            /\ calls[j].ok
            /\ \E u \in CallsOf("upload", runs[r].doc) : u < j /\ calls[u].ok

\* ------------------------------------------------------------------ C34
\* the run ended with the document marked stamp:error and reported failed
MarkedFailed(run) ==
    /\ run.outcome = "failed"
    /\ \E j \in CallsOf("update", run.doc) :
          /\ calls[j].ok
          /\ ERROR_TAG_NAME \in DOMAIN tag_n2i
          /\ tag_n2i[ERROR_TAG_NAME] \in ToSet(calls[j].arg)

\* C34: a run that ends with the document marked stamp:error and reported as
\* failed has uploaded no stamped version of the document and has created no
\* stamped:<type> tag upstream, wherever the failure occurred, a failed tag
\* creation or tag update after a successful upload included.
C34_FailedRunLeavesNoStamp ==
    \A r \in 1..Len(runs) :
        MarkedFailed(runs[r]) =>
            /\ \A u \in CallsOf("upload", runs[r].doc) : ~calls[u].ok
            /\ \A c \in CallsOf("create", runs[r].doc) :
                  calls[c].ok => ~StartsWith(calls[c].arg, DONE_TAG_PREFIX)

\* ------------------------------------------------------------------ C35
\* C35: the StampResults process_document returns for one document all have
\* the same success flag, and there are as many as trigger types were
\* extracted from the document: a document ends the cycle stamped or
\* errored, never partly either.
C35_AllOrNothing ==
    \A r \in 1..Len(runs) :
        (runs[r].outcome \in {"success", "failed", "empty"}) =>
            /\ Len(runs[r].results) = Len(runs[r].types)
            /\ \A k \in 1..Len(runs[r].results), l \in 1..Len(runs[r].results) :
                  runs[r].results[k].success = runs[r].results[l].success
            /\ ResultsOf(all_results, runs[r].doc) = runs[r].results

\* a document of two types, both stamped
C35_Witness ==
    \E r \in 1..Len(runs) :
        /\ Len(runs[r].results) = 2
        /\ runs[r].results[1].stamp_type # runs[r].results[2].stamp_type
        /\ runs[r].outcome = "success"
        /\ runs[r].results[1].success /\ runs[r].results[2].success

\* ------------------------------------------------------------------ C36
\* _handle_error ran in the run: a step failed with an error that
\* process_document catches
HandlerRan(run) == run.step # "none" /\ CaughtByProcessDocument(run.exc)

\* the tag updates of the handler: those for the document, but for the one
\* of _swap_tags when that is the step that failed
HandlerUpdates(run) ==
    IF run.step = "update"
    THEN {j \in CallsOf("update", run.doc) :
             \E i \in CallsOf("update", run.doc) : i < j}
    ELSE CallsOf("update", run.doc)

\* C36: _handle_error attempts the tag update once and the note once, the
\* update first, each whatever becomes of the other: a failed update does
\* not keep the note from being attached, a failed note neither repeats nor
\* undoes the update.
C36_UpdateAndNoteOnceEach ==
    \A r \in 1..Len(runs) :
        HandlerRan(runs[r]) =>
            /\ Cardinality(HandlerUpdates(runs[r])) = 1
            /\ Cardinality(CallsOf("note", runs[r].doc)) = 1
            /\ \A j \in HandlerUpdates(runs[r]), n \in CallsOf("note", runs[r].doc) :
                  /\ j < n
                  /\ calls[j].ok =>
                        ToSet(upDocTags[runs[r].doc]) = ToSet(calls[j].arg)

\* ------------------------------------------------------------------ C37
\* C37: when another actor adds or removes a non-trigger tag of a document
\* in the store after the worker's snapshot and before the worker's tag
\* update, on the success path or on the error path, that change is still
\* in effect after the worker's update.
C37_ForeignTagChangeKept ==
    (/\ unit.op = "race" /\ unit.done
     /\ \E i \in 1..Len(unit.out.m.log) :
           unit.out.m.log[i].op = "update" /\ unit.out.m.log[i].ok)
    => /\ (4 \in ToSet(unit.upstream)) => (4 \in ToSet(unit.out.m.docTags[unit.doc]))
       /\ (4 \notin ToSet(unit.upstream)) => (4 \notin ToSet(unit.out.m.docTags[unit.doc]))

\* ------------------------------------------------------------------ C38
\* the create requests of the cycle that succeeded
CreatedInCycle == {i \in 1..Len(calls) : calls[i].op = "create" /\ calls[i].ok}

\* C38: within one poll cycle each tag name missing upstream at the refresh
\* (stamped:<type> or stamp:error) is created by at most one successful
\* create request, however many documents and types need it; later uses in
\* the cycle take the id from the cache.
C38_CreatedOncePerCycle ==
    /\ \A i \in CreatedInCycle, j \in CreatedInCycle :
          calls[i].arg = calls[j].arg => i = j
    /\ \A i \in CreatedInCycle :
          /\ calls[i].arg = ERROR_TAG_NAME \/ StartsWith(calls[i].arg, DONE_TAG_PREFIX)
          /\ pc \in {"process", "sleep"} => calls[i].arg \in DOMAIN tag_n2i

\* two documents of one cycle were given the id of a tag that the first of
\* them had created
C38_Witness ==
    \E i \in CreatedInCycle :
        \E u \in CallsOf("update", 1), v \in CallsOf("update", 2) :
            /\ calls[i].arg \in DOMAIN tag_n2i
            /\ tag_n2i[calls[i].arg] \in ToSet(calls[u].arg)
            /\ tag_n2i[calls[i].arg] \in ToSet(calls[v].arg)
            /\ i < u /\ u < v

\* ------------------------------------------------------------------ C39
\* C39: for one document the extraction yields each stamp type at most once,
\* so that a run builds one stamp and returns one result per (document,
\* type), for every tag set the document can carry, tags whose stamp: prefix
\* differs only in letter case included.
C39_OneStampPerType ==
    (/\ unit.op \in {"extract", "process"} /\ unit.done
     /\ \A a \in 1..Len(unit.tags), b \in 1..Len(unit.tags) :
           unit.tags[a] = unit.tags[b] => a = b)
    => /\ unit.op = "extract" =>
             \A k \in 1..Len(unit.out), l \in 1..Len(unit.out) :
                 unit.out[k] = unit.out[l] => k = l
       /\ unit.op = "process" =>
             /\ \A k \in 1..Len(unit.out.run.stamps), l \in 1..Len(unit.out.run.stamps) :
                   unit.out.run.stamps[k] = unit.out.run.stamps[l] => k = l
             /\ \A k \in 1..Len(unit.out.results), l \in 1..Len(unit.out.results) :
                   unit.out.results[k].stamp_type = unit.out.results[l].stamp_type
                       => k = l

====
